---- MODULE Spec2Model ----
(***************************************************************************)
(* CustomDeployment controller (custom-deployment-controller): the         *)
(* Reconcile of internal/controller (finalizer-aware) and of controller    *)
(* (finalizer-less), run against an API server that stores one             *)
(* CustomDeployment ("cd", the parent) and the same-named Deployment       *)
(* ("deploy", the dependent).  The reconciler reads through the manager's  *)
(* cache, which lags the API server, and writes to the API server.         *)
(***************************************************************************)
EXTENDS Integers, Sequences, FiniteSets, TLC

\* ---------------------------------------------------------------- bounds
MaxReplicas == 1        \* spec.replicas ranges over 0..MaxReplicas
MaxAvail == 1           \* status.availableReplicas ranges over 0..MaxAvail

\* ------------------------------------------------------------- constants
customDeploymentFinalizer == "apps.myorg.io/finalizer"
OtherFinalizer == "other/finalizer"
DeployFinalizer == "foregroundDeletion"
NilReplicas == 0 - 1    \* deploy.Spec.Replicas == nil
ParentName == "ns/foo"  \* req.NamespacedName, the one key that is reconciled

\* The longest path of a pass makes four client calls: Get, Get, a write of
\* the Deployment and the status write.
MaxCalls == 4

ReplicaValues == 0..MaxReplicas
AvailValues == 0..MaxAvail

\* ------------------------------------------------------------- objects
\* A CustomDeployment as stored or read: ObjectMeta (Namespace and Name,
\* DeletionTimestamp, Finalizers), Spec.Replicas and Status.AvailableReplicas.
NoCD ==
  [exists |-> FALSE, name |-> "", deleting |-> FALSE, finalizers |-> {},
   replicas |-> 0, avail |-> 0]

\* A Deployment as stored or read.  labels stands for the label set, the
\* selector and the pod template, which desiredDeployment derives from the
\* same labels map.
NoDeploy ==
  [exists |-> FALSE, name |-> "", deleting |-> FALSE, finalizers |-> {},
   replicas |-> 0, avail |-> 0, owners |-> {}, labels |-> "none"]

\* metav1.OwnerReference: the owner and the Controller flag.
OwnerRef(owner, ctl) == [owner |-> owner, controller |-> ctl]

\* Mutant: the reference is appended without the Controller flag.
SetControllerReference_plainOwner(cd, deploy) ==
  [deploy EXCEPT !.owners = @ \cup {OwnerRef("cd", FALSE)}]

\* ctrl.SetControllerReference(cd, deploy, scheme) on an object without
\* owner references: appends one reference with Controller = true.
SetControllerReference(cd, deploy) ==
  [deploy EXCEPT !.owners = @ \cup {OwnerRef("cd", TRUE)}]

desiredDeployment(cd) ==
  [exists |-> TRUE, name |-> cd.name, deleting |-> FALSE, finalizers |-> {},
   replicas |-> cd.replicas, avail |-> 0, owners |-> {}, labels |-> "app"]

\* Mutant: the finalizer is reported present whatever the object holds.
ContainsFinalizer_always(cd, f) == TRUE

\* Mutant: the finalizer list is overwritten instead of extended.
AddFinalizer_overwrite(cd, f) == [cd EXCEPT !.finalizers = {f}]

\* Mutant: the finalizer is not taken off the list.
RemoveFinalizer_keeps(cd, f) == cd

ContainsFinalizer(cd, f) == f \in cd.finalizers
AddFinalizer(cd, f) == [cd EXCEPT !.finalizers = @ \cup {f}]
RemoveFinalizer(cd, f) == [cd EXCEPT !.finalizers = @ \ {f}]

\* --------------------------------------------------------- client calls
\* One entry of the pass's call log.
Call(op, kind, obj, res) == [op |-> op, kind |-> kind, obj |-> obj, res |-> res]

\* The fault input names the position (1..MaxCalls) of the call of the pass
\* that fails with a transient error; 0 means no call fails that way.
Fails(calls, fault) == fault = Len(calls) + 1

\* c.Get: served from the cache.
GetRes(cached, failed) ==
  IF failed THEN "error" ELSE IF cached.exists THEN "ok" ELSE "notfound"

\* Mutant: a not-found error is passed on like every other error.
IgnoreNotFound_passes(res) == res

\* client.IgnoreNotFound(err): a not-found error becomes nil, every other
\* result is passed on.
IgnoreNotFound(res) == IF res = "notfound" THEN "ok" ELSE res

\* The API server removes an object whose deletion was requested once its
\* finalizer set is empty.
PurgeCD(obj) == IF obj.deleting /\ obj.finalizers = {} THEN NoCD ELSE obj
PurgeDeploy(obj) == IF obj.deleting /\ obj.finalizers = {} THEN NoDeploy ELSE obj

\* c.Update(ctx, cd): optimistic concurrency against the object as read;
\* the status subresource is not written by Update.
ApiUpdateCD(S, read, new, failed) ==
  LET res == IF failed THEN "error"
             ELSE IF ~S.cd.exists THEN "notfound"
             ELSE IF S.cd # read THEN "conflict"
             ELSE "ok"
  IN [res |-> res,
      S |-> IF res = "ok"
            THEN [S EXCEPT !.cd = PurgeCD([new EXCEPT !.avail = S.cd.avail])]
            ELSE S]

\* c.Status().Update(ctx, cd): writes the status only.
ApiUpdateStatus(S, read, new, failed) ==
  LET res == IF failed THEN "error"
             ELSE IF ~S.cd.exists THEN "notfound"
             ELSE IF S.cd # read THEN "conflict"
             ELSE "ok"
  IN [res |-> res,
      S |-> IF res = "ok" THEN [S EXCEPT !.cd.avail = new.avail] ELSE S]

\* c.Create(ctx, deploy): the stored object starts with an empty status.
ApiCreateDeploy(S, obj, failed) ==
  LET res == IF failed THEN "error"
             ELSE IF S.dep.exists THEN "exists"
             ELSE "ok"
      stored == [obj EXCEPT !.avail = 0]
  IN [res |-> res,
      obj |-> IF res = "ok" THEN stored ELSE obj,
      S |-> IF res = "ok" THEN [S EXCEPT !.dep = stored] ELSE S]

\* c.Update(ctx, deploy)
ApiUpdateDeploy(S, read, new, failed) ==
  LET res == IF failed THEN "error"
             ELSE IF ~S.dep.exists THEN "notfound"
             ELSE IF S.dep # read THEN "conflict"
             ELSE "ok"
      stored == [new EXCEPT !.avail = S.dep.avail]
  IN [res |-> res,
      obj |-> IF res = "ok" THEN stored ELSE new,
      S |-> IF res = "ok" THEN [S EXCEPT !.dep = stored] ELSE S]

\* c.Delete(ctx, deploy): by name, no precondition; an object that holds
\* finalizers is only marked as terminating.
ApiDeleteDeploy(S, failed) ==
  LET res == IF failed THEN "error"
             ELSE IF ~S.dep.exists THEN "notfound"
             ELSE "ok"
  IN [res |-> res,
      S |-> IF res = "ok"
            THEN [S EXCEPT !.dep = PurgeDeploy([S.dep EXCEPT !.deleting = TRUE])]
            ELSE S]

\* What a pass returns: the call log, the error flag and ctrl.Result.Requeue,
\* together with the API server's objects after the pass.
Return(S, calls, err) ==
  [S |-> S, calls |-> calls, err |-> err, requeue |-> FALSE]

\* ------------------------------------- internal/controller (finalizers)
\* Mutant: the Deployment is written on every pass.
NeedsUpdate_always(deploy, cd) == TRUE

\* Mutant: the update also resets the labels to the desired ones.
WithReplicas_relabel(deploy, cd) ==
  [deploy EXCEPT !.replicas = cd.replicas, !.labels = "app"]

\* Mutant: the status is written whether or not it differs.
StatusDiffers_always(cd, deploy) == TRUE

\* Mutant: a Deployment that exists is never updated.
NeedsUpdate_never(deploy, cd) == FALSE

\* deploy.Spec.Replicas == nil || *deploy.Spec.Replicas != cd.Spec.Replicas
NeedsUpdate(deploy, cd) ==
  deploy.replicas = NilReplicas \/ deploy.replicas # cd.replicas

\* deploy.Spec.Replicas = ptr.To(cd.Spec.Replicas)
WithReplicas(deploy, cd) == [deploy EXCEPT !.replicas = cd.replicas]

\* cd.Status.AvailableReplicas != deploy.Status.AvailableReplicas
StatusDiffers(cd, deploy) == cd.avail # deploy.avail

\* Mutant: the status is cleared instead of copied from the Deployment.
WithStatus_zero(cd, deploy) == [cd EXCEPT !.avail = 0]

\* cd.Status.AvailableReplicas = deploy.Status.AvailableReplicas
WithStatus(cd, deploy) == [cd EXCEPT !.avail = deploy.avail]

\* Mutant: a failed Update of the Deployment does not end the pass, the
\* status is still written from the object at hand.
handleCreateOrUpdate_patchesOn(cd, depc, S, calls, fault) ==
  LET g == GetRes(depc, Fails(calls, fault))
      c2 == Append(calls, Call("Get", "deploy", depc, g))
      \* the status comparison and write that close the function
      Status(S1, c3, deploy) ==
        IF StatusDiffers(cd, deploy)
        THEN LET new == WithStatus(cd, deploy)
                 u == ApiUpdateStatus(S1, cd, new, Fails(c3, fault))
             IN Return(u.S, Append(c3, Call("UpdateStatus", "cd", new, u.res)),
                       u.res # "ok")
        ELSE Return(S1, c3, FALSE)
  IN IF g = "notfound"
     THEN LET deploy == SetControllerReference(cd, desiredDeployment(cd))
              cr == ApiCreateDeploy(S, deploy, Fails(c2, fault))
              c3 == Append(c2, Call("Create", "deploy", deploy, cr.res))
          IN IF cr.res # "ok" THEN Return(S, c3, TRUE)
             ELSE Status(cr.S, c3, cr.obj)
     ELSE IF g = "error"
     THEN Return(S, c2, TRUE)
     ELSE IF NeedsUpdate(depc, cd)
     THEN LET deploy == WithReplicas(depc, cd)
              u == ApiUpdateDeploy(S, depc, deploy, Fails(c2, fault))
              c3 == Append(c2, Call("Update", "deploy", deploy, u.res))
          IN Status(u.S, c3, u.obj)
     ELSE Status(S, c2, depc)

\* handleCreateOrUpdate(ctx, cd): cd is the parent as read, depc the cached
\* Deployment, calls the log of the pass so far.
handleCreateOrUpdate(cd, depc, S, calls, fault) ==
  LET g == GetRes(depc, Fails(calls, fault))
      c2 == Append(calls, Call("Get", "deploy", depc, g))
      \* the status comparison and write that close the function
      Status(S1, c3, deploy) ==
        IF StatusDiffers(cd, deploy)
        THEN LET new == WithStatus(cd, deploy)
                 u == ApiUpdateStatus(S1, cd, new, Fails(c3, fault))
             IN Return(u.S, Append(c3, Call("UpdateStatus", "cd", new, u.res)),
                       u.res # "ok")
        ELSE Return(S1, c3, FALSE)
  IN IF g = "notfound"
     THEN LET deploy == SetControllerReference(cd, desiredDeployment(cd))
              cr == ApiCreateDeploy(S, deploy, Fails(c2, fault))
              c3 == Append(c2, Call("Create", "deploy", deploy, cr.res))
          IN IF cr.res # "ok" THEN Return(S, c3, TRUE)
             ELSE Status(cr.S, c3, cr.obj)
     ELSE IF g = "error"
     THEN Return(S, c2, TRUE)
     ELSE IF NeedsUpdate(depc, cd)
     THEN LET deploy == WithReplicas(depc, cd)
              u == ApiUpdateDeploy(S, depc, deploy, Fails(c2, fault))
              c3 == Append(c2, Call("Update", "deploy", deploy, u.res))
          IN IF u.res # "ok" THEN Return(S, c3, TRUE)
             ELSE Status(u.S, c3, u.obj)
     ELSE Status(S, c2, depc)

\* Mutant: a Deployment that is still terminating counts as deleted.
handleDeletion_terminating(cd, depc, S, calls, fault) ==
  LET g == GetRes(depc, Fails(calls, fault))
      c2 == Append(calls, Call("Get", "deploy", depc, g))
  IN IF g = "notfound"
     THEN [deleted |-> TRUE, err |-> FALSE, S |-> S, calls |-> c2]
     ELSE IF g = "error"
     THEN [deleted |-> FALSE, err |-> TRUE, S |-> S, calls |-> c2]
     ELSE IF ~depc.deleting
     THEN LET d == ApiDeleteDeploy(S, Fails(c2, fault))
              c3 == Append(c2, Call("Delete", "deploy", depc, d.res))
          IN IF d.res # "ok" /\ d.res # "notfound"
             THEN [deleted |-> FALSE, err |-> TRUE, S |-> S, calls |-> c3]
             ELSE [deleted |-> FALSE, err |-> FALSE, S |-> d.S, calls |-> c3]
     ELSE [deleted |-> TRUE, err |-> FALSE, S |-> S, calls |-> c2]

\* Mutant: issuing the Delete counts as the deletion being complete.
handleDeletion_afterDelete(cd, depc, S, calls, fault) ==
  LET g == GetRes(depc, Fails(calls, fault))
      c2 == Append(calls, Call("Get", "deploy", depc, g))
  IN IF g = "notfound"
     THEN [deleted |-> TRUE, err |-> FALSE, S |-> S, calls |-> c2]
     ELSE IF g = "error"
     THEN [deleted |-> FALSE, err |-> TRUE, S |-> S, calls |-> c2]
     ELSE IF ~depc.deleting
     THEN LET d == ApiDeleteDeploy(S, Fails(c2, fault))
              c3 == Append(c2, Call("Delete", "deploy", depc, d.res))
          IN IF d.res # "ok" /\ d.res # "notfound"
             THEN [deleted |-> FALSE, err |-> TRUE, S |-> S, calls |-> c3]
             ELSE [deleted |-> TRUE, err |-> FALSE, S |-> d.S, calls |-> c3]
     ELSE [deleted |-> FALSE, err |-> FALSE, S |-> S, calls |-> c2]

\* Mutant: Delete is issued again for a Deployment that is terminating.
handleDeletion_redeletes(cd, depc, S, calls, fault) ==
  LET g == GetRes(depc, Fails(calls, fault))
      c2 == Append(calls, Call("Get", "deploy", depc, g))
  IN IF g = "notfound"
     THEN [deleted |-> TRUE, err |-> FALSE, S |-> S, calls |-> c2]
     ELSE IF g = "error"
     THEN [deleted |-> FALSE, err |-> TRUE, S |-> S, calls |-> c2]
     ELSE LET d == ApiDeleteDeploy(S, Fails(c2, fault))
              c3 == Append(c2, Call("Delete", "deploy", depc, d.res))
          IN IF d.res # "ok" /\ d.res # "notfound"
             THEN [deleted |-> FALSE, err |-> TRUE, S |-> S, calls |-> c3]
             ELSE [deleted |-> FALSE, err |-> FALSE, S |-> d.S, calls |-> c3]

\* Mutant: a failed read or Delete of the Deployment is not reported.
handleDeletion_swallows(cd, depc, S, calls, fault) ==
  LET g == GetRes(depc, Fails(calls, fault))
      c2 == Append(calls, Call("Get", "deploy", depc, g))
  IN IF g = "notfound"
     THEN [deleted |-> TRUE, err |-> FALSE, S |-> S, calls |-> c2]
     ELSE IF g = "error"
     THEN [deleted |-> FALSE, err |-> FALSE, S |-> S, calls |-> c2]
     ELSE IF ~depc.deleting
     THEN LET d == ApiDeleteDeploy(S, Fails(c2, fault))
              c3 == Append(c2, Call("Delete", "deploy", depc, d.res))
          IN [deleted |-> FALSE, err |-> FALSE, S |-> d.S, calls |-> c3]
     ELSE [deleted |-> FALSE, err |-> FALSE, S |-> S, calls |-> c2]

\* handleDeletion(ctx, cd): returns (deleted, err) with the log and the
\* API server's state.
handleDeletion(cd, depc, S, calls, fault) ==
  LET g == GetRes(depc, Fails(calls, fault))
      c2 == Append(calls, Call("Get", "deploy", depc, g))
  IN IF g = "notfound"
     THEN [deleted |-> TRUE, err |-> FALSE, S |-> S, calls |-> c2]
     ELSE IF g = "error"
     THEN [deleted |-> FALSE, err |-> TRUE, S |-> S, calls |-> c2]
     ELSE IF ~depc.deleting
     THEN LET d == ApiDeleteDeploy(S, Fails(c2, fault))
              c3 == Append(c2, Call("Delete", "deploy", depc, d.res))
          IN IF d.res # "ok" /\ d.res # "notfound"
             THEN [deleted |-> FALSE, err |-> TRUE, S |-> S, calls |-> c3]
             ELSE [deleted |-> FALSE, err |-> FALSE, S |-> d.S, calls |-> c3]
     ELSE [deleted |-> FALSE, err |-> FALSE, S |-> S, calls |-> c2]

\* Mutant: a parent that is being deleted is converged like an active one.
Reconcile_ignoresDeletion(cdc, depc, S, fault) ==
  LET g == GetRes(cdc, Fails(<<>>, fault))
      c1 == <<Call("Get", "cd", cdc, g)>>
  IN IF g # "ok"
     THEN Return(S, c1, IgnoreNotFound(g) # "ok")
     ELSE IF ~ContainsFinalizer(cdc, customDeploymentFinalizer)
     THEN LET new == AddFinalizer(cdc, customDeploymentFinalizer)
              u == ApiUpdateCD(S, cdc, new, Fails(c1, fault))
          IN Return(u.S, Append(c1, Call("Update", "cd", new, u.res)),
                    u.res # "ok")
     ELSE handleCreateOrUpdate(cdc, depc, S, c1, fault)

\* CustomDeploymentController.Reconcile of internal/controller.
Reconcile(cdc, depc, S, fault) ==
  LET g == GetRes(cdc, Fails(<<>>, fault))
      c1 == <<Call("Get", "cd", cdc, g)>>
  IN IF g # "ok"
     THEN Return(S, c1, IgnoreNotFound(g) # "ok")
     ELSE IF ~cdc.deleting
     THEN IF ~ContainsFinalizer(cdc, customDeploymentFinalizer)
          THEN LET new == AddFinalizer(cdc, customDeploymentFinalizer)
                   u == ApiUpdateCD(S, cdc, new, Fails(c1, fault))
               IN Return(u.S, Append(c1, Call("Update", "cd", new, u.res)),
                         u.res # "ok")
          ELSE handleCreateOrUpdate(cdc, depc, S, c1, fault)
     ELSE IF ContainsFinalizer(cdc, customDeploymentFinalizer)
     THEN LET h == handleDeletion(cdc, depc, S, c1, fault)
          IN IF h.err THEN Return(h.S, h.calls, TRUE)
             ELSE IF h.deleted
             THEN LET new == RemoveFinalizer(cdc, customDeploymentFinalizer)
                      u == ApiUpdateCD(h.S, cdc, new, Fails(h.calls, fault))
                  IN Return(u.S,
                            Append(h.calls, Call("Update", "cd", new, u.res)),
                            u.res # "ok")
             ELSE Return(h.S, h.calls, FALSE)
     ELSE Return(S, c1, FALSE)

\* ---------------------------------------- controller (no finalizers)
\* CustomDeploymentController.Reconcile of controller/controller.go.
ReconcilePlain(cdc, depc, S, fault) ==
  LET g1 == GetRes(cdc, Fails(<<>>, fault))
      c1 == <<Call("Get", "cd", cdc, g1)>>
      g == GetRes(depc, Fails(c1, fault))
      c2 == Append(c1, Call("Get", "deploy", depc, g))
      Status(S1, c3, deploy) ==
        IF cdc.avail # deploy.avail
        THEN LET new == [cdc EXCEPT !.avail = deploy.avail]
                 u == ApiUpdateStatus(S1, cdc, new, Fails(c3, fault))
             IN Return(u.S, Append(c3, Call("UpdateStatus", "cd", new, u.res)),
                       u.res # "ok")
        ELSE Return(S1, c3, FALSE)
  IN IF g1 # "ok"
     THEN Return(S, c1, IgnoreNotFound(g1) # "ok")
     ELSE IF g = "notfound"
     THEN LET deploy == SetControllerReference(cdc, desiredDeployment(cdc))
              cr == ApiCreateDeploy(S, deploy, Fails(c2, fault))
              c3 == Append(c2, Call("Create", "deploy", deploy, cr.res))
          IN IF cr.res # "ok" THEN Return(S, c3, TRUE)
             ELSE Status(cr.S, c3, cr.obj)
     ELSE IF g = "error"
     THEN Return(S, c2, TRUE)
     ELSE IF depc.replicas = NilReplicas \/ depc.replicas # cdc.replicas
     THEN LET deploy == [depc EXCEPT !.replicas = cdc.replicas]
              u == ApiUpdateDeploy(S, depc, deploy, Fails(c2, fault))
              c3 == Append(c2, Call("Update", "deploy", deploy, u.res))
          IN IF u.res # "ok" THEN Return(S, c3, TRUE)
             ELSE Status(u.S, c3, u.obj)
     ELSE Status(S, c2, depc)

\* ------------------------------------------------------------ the system
\* The calls of a pass that write: everything but the reads.
Writes(calls) == SelectSeq(calls, LAMBDA c : c.op # "Get")

IsCall(c, op, kind) == c.op = op /\ c.kind = kind

Issued(calls, op, kind) ==
  {i \in 1..Len(calls) : IsCall(calls[i], op, kind)}

\* What is remembered of a pass for the pass that follows it: whether it
\* failed, added the finalizer, asked for the Deployment's deletion, or
\* returned success after anything else.
Summary(r) ==
  IF r.err THEN "failed"
  ELSE IF \E i \in Issued(r.calls, "Update", "cd") :
            customDeploymentFinalizer \in r.calls[i].obj.finalizers
  THEN "addedFinalizer"
  ELSE IF Issued(r.calls, "Delete", "deploy") # {} THEN "deleted"
  ELSE "settled"

VARIABLES
  variant,    \* which Reconcile the manager runs: "internal" or "plain"
  cd,         \* the CustomDeployment in the API server
  dep,        \* the same-named Deployment in the API server
  cacheCD,    \* the CustomDeployment as the manager's cache holds it
  cacheDep,   \* the Deployment as the manager's cache holds it
  created,    \* whether the CustomDeployment under study was created yet
  last,       \* the Reconcile pass the latest step made, if it was one
  prev,       \* summary of the latest pass while nobody else changed an object
  triggered,  \* whether a pass needs the key queued and changes are counted
  queued,     \* whether the parent's key waits in the work queue
  budget      \* changes by others and failing calls still to come

tvars == <<triggered, queued, budget>>

\* Changes by others and failing calls of a run that settles.
MaxChanges == 3

\* ------------------------------------------- the work queue and its workers
\* Bounds of the work queue's model.
NumWorkers == 2         \* workers started by Run
maxRetries == 2         \* processNextItem's ceiling on NumRequeues
MaxAdds == 3            \* external Adds (event handler calls) that are followed
MaxFailures == 19       \* consecutive failures of a key the limiter is driven to
MaxDebt == 1            \* tokens the bucket is driven to owe

\* DefaultControllerRateLimiter(): delays in milliseconds.
BaseDelay == 5          \* ItemExponentialFailureRateLimiter(5*time.Millisecond,
MaxDelay == 1000000     \*                                   1000*time.Second)
Qps == 10               \* rate.NewLimiter(10,
Burst == 100            \*                     100)

ResyncPeriod == 30      \* NewSharedIndexInformer(..., 30*time.Minute, ...)

Keys == {"ns/a", "ns/b"}
Workers == 1..NumWorkers

VARIABLES
  wq,         \* the queue: pending keys in order, dirty set, processing set
  waiting,    \* keys of AddAfter whose delay has not passed yet
  failures,   \* the rate limiter's per-key failure counter (NumRequeues)
  pc,         \* where each worker stands in processNextItem
  held,       \* the key each worker got from Get
  trace,      \* the calls each worker made since its latest Get
  finished,   \* the worker that returned from processNextItem in the
              \* latest step, if one did, and the calls it had made
  inFlightAdd,\* keys added again while a worker held them
  adds,       \* the number of external Adds so far
  tokens,     \* the tokens in the rate limiter's bucket (negative: owed)
  lastDelay,  \* per key, the delay of the limiter's latest When since the
              \* key's latest Forget, as driven by SpecLimiter
  stopped     \* the stop signal has fired: stopCh is closed

qvars ==
  <<wq, waiting, failures, pc, held, trace, finished, inFlightAdd, adds,
    tokens, lastDelay, stopped>>

NoKey == ""
NoRun == [worker |-> 0, calls |-> <<>>]
NoDelay == [item |-> 0, bucket |-> 0]

\* workqueue.NewRateLimitingQueue(...), before Run starts the workers.
QueueInit ==
  /\ wq = [queue |-> <<>>, dirty |-> {}, processing |-> {}]
  /\ waiting = {}
  /\ failures = [k \in Keys |-> 0]
  /\ pc = [w \in Workers |-> "get"]
  /\ held = [w \in Workers |-> NoKey]
  /\ trace = [w \in Workers |-> <<>>]
  /\ finished = NoRun
  /\ inFlightAdd = {}
  /\ adds = 0
  /\ tokens = Burst
  /\ lastDelay = [k \in Keys |-> NoDelay]
  /\ stopped = FALSE

\* ------------------------------------------------- the informer's state
MaxDeltas == 3          \* Deltas of one key that are fed to the DeltaFIFO
MaxObjs == 2            \* distinct objects among the Deltas that are fed
MaxCloses == 1          \* closings of the watch's connection that are followed
MaxEvents == 2          \* writes to the API server that are followed

\* An object is the resourceVersion of the write that made it; 0: none.
NoObj == 0
NoObjs == [k \in Keys |-> NoObj]

VARIABLES
  server,     \* the API server: the object of each key
  rv,         \* the API server's resourceVersion: the writes so far
  reflector,  \* where Reflector.Run stands: "list" or "watch"
  stream,     \* the events the server holds for the Reflector's watch:
              \* written after the version the Reflector has reached, not
              \* yet read
  fifo,       \* the DeltaFIFO: per key its Deltas, and the keys in order
  indexer,    \* the Indexer: the cached object of each key
  populated,  \* the first Replace has been stored in the DeltaFIFO
  initial,    \* items of the first Replace that have not been popped yet
  snapshot,   \* the objects the first List returned
  started,    \* Run has passed WaitForCacheSync and launched the workers
  closes,     \* the number of times the watch's connection was closed
  resyncPeriod, \* the informer's resync period, in minutes; 0: no resync
  lastList,   \* the objects of the latest List, and whether no Delta was
              \* waiting at its Replace; kept while nothing else is stored
              \* in the DeltaFIFO
  lastPop     \* the key the latest step popped, if it was a Pop, and the
              \* handler calls made for it

\* What the informer holds, apart from the record of its latest step.
informer ==
  <<server, rv, reflector, stream, fifo, indexer, populated, initial,
    snapshot, started, closes, lastList, resyncPeriod>>

VARIABLES
  todo,       \* a key and the Deltas that are to be stored for it, when
              \* the DeltaFIFO is fed directly
  fed         \* how many of them have been stored

input == <<todo, fed>>

ivars == <<informer, lastPop, input>>

NoPop == [key |-> NoKey, notes |-> <<>>]
NoInput == [key |-> NoKey, deltas |-> <<>>]
NoList == [fresh |-> FALSE, clean |-> FALSE, objs |-> NoObjs]
NoFifo == [items |-> [k \in Keys |-> <<>>], queue |-> <<>>]

\* NewController(...): nothing is listed, nothing is cached, no worker runs.
InformerInit ==
  /\ server = NoObjs
  /\ rv = 0
  /\ reflector = "list"
  /\ stream = <<>>
  /\ fifo = NoFifo
  /\ indexer = NoObjs
  /\ populated = FALSE
  /\ initial = 0
  /\ snapshot = NoObjs
  /\ started = FALSE
  /\ closes = 0
  /\ lastList = NoList
  /\ lastPop = NoPop

\* Run has launched the workers over a synced cache that holds every key,
\* and no further event arrives.
InformerRunning ==
  /\ server = [k \in Keys |-> 1]
  /\ rv = 1
  /\ reflector = "watch"
  /\ stream = <<>>
  /\ fifo = NoFifo
  /\ indexer = [k \in Keys |-> 1]
  /\ populated = TRUE
  /\ initial = 0
  /\ snapshot = [k \in Keys |-> 1]
  /\ started = TRUE
  /\ resyncPeriod = 0
  /\ closes = 0
  /\ lastList = NoList
  /\ lastPop = NoPop

\* ------------------------------------ ConfigMap-to-Secret (simple controller)
VARIABLES
  configMap,  \* the ConfigMap of the request's name in the API server
  secret,     \* the Secret "<name>-synced" in the API server
  lastSync    \* the ConfigMapReconciler pass the latest step made, if any

cmvars == <<configMap, secret, lastSync>>

MaxUids == 2
DataKeys == {"k1", "k2"}
Values == {"v1", "v2"}
NoValue == "-"

\* A data map: every key holds a value or is absent.
DataSet == [DataKeys -> Values \cup {NoValue}]
NoData == [k \in DataKeys |-> NoValue]

\* uid counts the ConfigMaps created under the name, the latest being the
\* one that exists, if one does.
NoConfigMap ==
  [exists |-> FALSE, uid |-> 0, annotated |-> FALSE, data |-> NoData]

\* owner is the uid of the ConfigMap the controller OwnerReference names,
\* 0 without one.
NoSecret ==
  [exists |-> FALSE, data |-> NoData, labels |-> "none", owner |-> 0]

NoSync ==
  [ran |-> FALSE, before |-> NoSecret, calls |-> <<>>, err |-> FALSE]

\* One client call of a pass and its result: "ok", "notfound" or "error".
ClientCall(op, kind, res) == [op |-> op, kind |-> kind, res |-> res]

\* The call of the pass that fails with an error other than not-found.
SyncFaults == {"none", "getConfigMap", "delete", "getSecret", "create", "update"}

\* r.Get and r.Delete answer from the object, unless the call fails.
GetResult(obj, failed) ==
  IF failed THEN "error" ELSE IF obj.exists THEN "ok" ELSE "notfound"

\* Mutant: a Secret that is already gone fails the pass.
DeleteFailed_strict(res) == res # "ok"

\* err != nil && !errors.IsNotFound(err)
DeleteFailed(res) == res # "ok" /\ res # "notfound"

\* Mutant: every ConfigMap is synced.
HasSyncAnnotation_always(cm) == TRUE

\* configMap.Annotations[syncAnnotation] == "true"
HasSyncAnnotation(cm) == cm.annotated

\* A written Secret stores its data with every StringData entry merged in:
\* a key the StringData does not hold keeps what the written object holds.
ApplyStringData(data, stringData) ==
  [k \in DataKeys |->
     IF stringData[k] # NoValue THEN stringData[k] ELSE data[k]]

\* The Secret the pass builds, as the API server stores it on Create.
NewSecret(cm) ==
  [exists |-> TRUE, data |-> ApplyStringData(NoData, cm.data),
   labels |-> "managed", owner |-> cm.uid]

\* The Secret the pass read, changed for Update, as the API server stores it.
UpdatedSecret(existingSecret, cm) ==
  [existingSecret EXCEPT
     !.data = ApplyStringData(existingSecret.data, cm.data),
     !.labels = NewSecret(cm).labels]

SyncReturn(s, calls, err) == [secret |-> s, calls |-> calls, err |-> err]

\* The ConfigMap is gone: delete its Secret, which may be gone as well.
DeleteSynced(s, calls, fault) ==
  LET res == GetResult(s, fault = "delete")
      cs == Append(calls, ClientCall("Delete", "secret", res)) IN
  SyncReturn(IF res = "ok" THEN NoSecret ELSE s, cs, DeleteFailed(res))

\* Create the Secret or update the one that exists.
CreateOrUpdate(cm, s, calls, fault) ==
  LET got == GetResult(s, fault = "getSecret")
      c1 == Append(calls, ClientCall("Get", "secret", got)) IN
  IF got = "notfound"
    THEN IF fault = "create"
           THEN SyncReturn(s, Append(c1, ClientCall("Create", "secret", "error")), TRUE)
           ELSE SyncReturn(NewSecret(cm),
                           Append(c1, ClientCall("Create", "secret", "ok")), FALSE)
  ELSE IF got = "ok"
    THEN IF fault = "update"
           THEN SyncReturn(s, Append(c1, ClientCall("Update", "secret", "error")), TRUE)
           ELSE SyncReturn(UpdatedSecret(s, cm),
                           Append(c1, ClientCall("Update", "secret", "ok")), FALSE)
  ELSE SyncReturn(s, c1, TRUE)

\* One pass of ConfigMapReconciler.Reconcile for the request's name.
ReconcileConfigMap(cm, s, fault) ==
  LET got == GetResult(cm, fault = "getConfigMap")
      c1 == <<ClientCall("Get", "configmap", got)>> IN
  IF got = "notfound" THEN DeleteSynced(s, c1, fault)
  ELSE IF got = "error" THEN SyncReturn(s, c1, TRUE)
  ELSE IF ~HasSyncAnnotation(cm) THEN SyncReturn(s, c1, FALSE)
  ELSE CreateOrUpdate(cm, s, c1, fault)

vars == <<variant, cd, dep, cacheCD, cacheDep, created, last, prev, cmvars, tvars>>

NoPass ==
  [ran |-> FALSE, fresh |-> FALSE, after |-> "none",
   calls |-> <<>>, err |-> FALSE, requeue |-> FALSE]

\* The watch delivers an object's versions in order and the cache is at most
\* one version behind the API server: a write of an object finds every
\* earlier version of it delivered, and leaves the cache on the version it
\* replaced until the next Sync.
Behind(old, new, cached) == IF new # old THEN old ELSE cached

\* Nothing has been created yet.
StoreInit ==
  /\ cd = NoCD
  /\ dep = NoDeploy
  /\ cacheCD = NoCD
  /\ cacheDep = NoDeploy
  /\ created = FALSE
  /\ last = NoPass
  /\ prev = "none"
  /\ configMap = NoConfigMap
  /\ secret = NoSecret
  /\ lastSync = NoSync

\* A pass may run at any time and others may change objects without end.
CDInit ==
  /\ variant \in {"internal", "plain"}
  /\ StoreInit
  /\ triggered = FALSE
  /\ queued = FALSE
  /\ budget = 0

\* The state each specification below starts from, but for the part it is
\* about: a fresh parent store, a fresh queue, a synced informer.
Init ==
  /\ CDInit
  /\ QueueInit
  /\ InformerRunning
  /\ todo = NoInput
  /\ fed = 0

\* The object carries a controller OwnerReference that points at the parent.
ControlledByParent(obj) == OwnerRef("cd", TRUE) \in obj.owners

\* For(&CustomDeployment{}): every event of the parent queues its key.
ParentEvent(old, new) == old # new

\* Owns(&Deployment{}): an event of a Deployment queues the key of its
\* controller owner, of the old object or of the new one.
OwnedEvent(old, new) ==
  old # new /\ (ControlledByParent(old) \/ ControlledByParent(new))

\* The key is queued after a step in which the cache took new versions.
Enqueued ==
  triggered /\ \/ queued
               \/ ParentEvent(cacheCD, cacheCD')
               \/ OwnedEvent(cacheDep, cacheDep')

\* A change by somebody else, or a failing call: one of the few to come.
Charged ==
  /\ triggered => budget > 0
  /\ budget' = IF triggered THEN budget - 1 ELSE budget

\* A step the API server takes on its own to finish what was asked.
Free == UNCHANGED budget

\* A step of somebody other than the reconciler that writes the parent.
OthersWriteCD ==
  /\ cacheCD' = Behind(cd, cd', cacheCD)
  /\ last' = NoPass
  /\ prev' = "none"
  /\ UNCHANGED <<variant, dep, cacheDep, triggered, qvars, ivars, cmvars>>
  /\ queued' = Enqueued

\* A step of somebody other than the reconciler that writes the Deployment.
OthersWriteDeploy ==
  /\ cacheDep' = Behind(dep, dep', cacheDep)
  /\ last' = NoPass
  /\ prev' = "none"
  /\ UNCHANGED <<variant, cd, cacheCD, created, triggered, qvars, ivars, cmvars>>
  /\ queued' = Enqueued

\* kubectl apply of the CustomDeployment (one object's life is followed: a
\* later object of the same name is another object); another controller may
\* have its own finalizer put on it at admission.
UserCreateCD ==
  /\ ~created
  /\ created' = TRUE
  /\ \E r \in ReplicaValues, fs \in {{}, {OtherFinalizer}} :
       cd' = [exists |-> TRUE, name |-> ParentName, deleting |-> FALSE,
              finalizers |-> fs,
              replicas |-> r, avail |-> 0]
  /\ OthersWriteCD
  /\ Free

\* The user edits spec.replicas.
UserScale ==
  /\ cd.exists
  /\ \E r \in ReplicaValues \ {cd.replicas} : cd' = [cd EXCEPT !.replicas = r]
  /\ OthersWriteCD
  /\ Charged
  /\ UNCHANGED created

\* kubectl delete of the CustomDeployment.
UserDeleteCD ==
  /\ cd.exists
  /\ ~cd.deleting
  /\ cd' = PurgeCD([cd EXCEPT !.deleting = TRUE])
  /\ OthersWriteCD
  /\ Charged
  /\ UNCHANGED created

\* The owner of the other finalizer finishes and removes its token.
OtherFinalizerDone ==
  /\ cd.exists
  /\ cd.deleting
  /\ OtherFinalizer \in cd.finalizers
  /\ cd' = PurgeCD(RemoveFinalizer(cd, OtherFinalizer))
  /\ OthersWriteCD
  /\ Free
  /\ UNCHANGED created

\* Someone else creates a Deployment of the parent's name.
UserCreateDeploy ==
  /\ ~dep.exists
  /\ \E r \in ReplicaValues \cup {NilReplicas},
        fs \in {{}, {DeployFinalizer}} :
       dep' = [exists |-> TRUE, name |-> ParentName, deleting |-> FALSE,
               finalizers |-> fs, replicas |-> r, avail |-> 0, owners |-> {}, labels |-> "user"]
  /\ OthersWriteDeploy
  /\ Charged

\* kubectl delete of the Deployment.
UserDeleteDeploy ==
  /\ dep.exists
  /\ ~dep.deleting
  /\ dep' = PurgeDeploy([dep EXCEPT !.deleting = TRUE])
  /\ OthersWriteDeploy
  /\ Charged

\* The Deployment controller reports how many replicas are available.
DeployStatus ==
  /\ dep.exists
  /\ \E a \in AvailValues \ {dep.avail} : dep' = [dep EXCEPT !.avail = a]
  /\ OthersWriteDeploy
  /\ Charged

\* A protection controller puts a finalizer on the Deployment.
DeployProtect ==
  /\ dep.exists
  /\ ~dep.deleting
  /\ dep.finalizers = {}
  /\ dep' = [dep EXCEPT !.finalizers = {DeployFinalizer}]
  /\ OthersWriteDeploy
  /\ Charged

\* The Deployment's finalizer is removed; a terminating Deployment goes.
DeployFinalizerDone ==
  /\ dep.exists
  /\ dep.finalizers # {}
  /\ dep' = PurgeDeploy([dep EXCEPT !.finalizers = {}])
  /\ OthersWriteDeploy
  /\ Free

\* The garbage collector deletes a Deployment all of whose owners are gone.
GarbageCollect ==
  /\ dep.exists
  /\ ~dep.deleting
  /\ dep.owners # {}
  /\ \A o \in dep.owners : o.owner = "cd" /\ ~cd.exists
  /\ dep' = PurgeDeploy([dep EXCEPT !.deleting = TRUE])
  /\ OthersWriteDeploy
  /\ Free

\* The watch delivers the parent's latest version to the cache.
SyncCD ==
  /\ cacheCD # cd
  /\ cacheCD' = cd
  /\ last' = NoPass
  /\ UNCHANGED <<variant, cd, dep, cacheDep, created, prev, triggered, budget, qvars, ivars, cmvars>>
  /\ queued' = Enqueued

\* The watch delivers the Deployment's latest version to the cache.
SyncDeploy ==
  /\ cacheDep # dep
  /\ cacheDep' = dep
  /\ last' = NoPass
  /\ UNCHANGED <<variant, cd, dep, cacheCD, created, prev, triggered, budget, qvars, ivars, cmvars>>
  /\ queued' = Enqueued

\* One Reconcile pass for the parent's key: it reads the cache and writes
\* to the API server; fault names the call that fails transiently, if any.
ReconcilePass ==
  \E fault \in 0..MaxCalls :
    LET S == [cd |-> cd, dep |-> dep]
        fresh == cacheCD = cd /\ cacheDep = dep
        r == IF variant = "internal"
             THEN Reconcile(cacheCD, cacheDep, S, fault)
             ELSE ReconcilePlain(cacheCD, cacheDep, S, fault)
    IN /\ triggered => queued
       /\ IF fault = 0 THEN Free ELSE Charged
       /\ cd' = r.S.cd
       /\ dep' = r.S.dep
       /\ cacheCD' = Behind(cd, r.S.cd, cacheCD)
       /\ cacheDep' = Behind(dep, r.S.dep, cacheDep)
       /\ last' = [ran |-> TRUE, fresh |-> fresh, after |-> prev,
                   calls |-> r.calls, err |-> r.err, requeue |-> r.requeue]
       /\ prev' = IF fresh THEN Summary(r) ELSE "none"
       /\ queued' = /\ triggered
                    /\ \/ r.err
                       \/ ParentEvent(cacheCD, cacheCD')
                       \/ OwnedEvent(cacheDep, cacheDep')
       /\ UNCHANGED <<variant, created, triggered, qvars, ivars, cmvars>>

Next ==
  \/ UserCreateCD
  \/ UserScale
  \/ UserDeleteCD
  \/ OtherFinalizerDone
  \/ UserCreateDeploy
  \/ UserDeleteDeploy
  \/ DeployStatus
  \/ DeployProtect
  \/ DeployFinalizerDone
  \/ GarbageCollect
  \/ SyncCD
  \/ SyncDeploy
  \/ ReconcilePass

Spec == Init /\ [][Next]_<<vars, qvars, ivars>>

\* The finalizer-aware controller as the manager runs it: a pass runs when
\* an event of the parent, an event of a Deployment it controls or a failed
\* pass has queued the key; others change objects and calls fail only a
\* few times.
TriggeredInit ==
  /\ variant = "internal"
  /\ StoreInit
  /\ triggered = TRUE
  /\ queued = FALSE
  /\ budget = MaxChanges
  /\ QueueInit
  /\ InformerRunning
  /\ todo = NoInput
  /\ fed = 0

\* The cache catches up, a queued key is reconciled, and a Deployment that
\* is being deleted loses its finalizers in the end.
SpecTriggered ==
  /\ TriggeredInit
  /\ [][Next]_<<vars, qvars, ivars>>
  /\ WF_<<vars, qvars, ivars>>(SyncCD)
  /\ WF_<<vars, qvars, ivars>>(SyncDeploy)
  /\ WF_<<vars, qvars, ivars>>(ReconcilePass)
  /\ WF_<<vars, qvars, ivars>>(DeployFinalizerDone)

\* The informer's periodic resync hands the cached parent to the handlers
\* once more, which queues its key.
ParentResync ==
  /\ triggered
  /\ cacheCD.exists
  /\ ~queued
  /\ queued' = TRUE
  /\ last' = NoPass
  /\ UNCHANGED <<variant, cd, dep, cacheCD, cacheDep, created, prev, triggered, budget, qvars, ivars, cmvars>>

ResyncNext == Next \/ ParentResync

\* The same controller with the resync that the convergence loop counts on.
SpecResync ==
  /\ TriggeredInit
  /\ [][ResyncNext]_<<vars, qvars, ivars>>
  /\ WF_<<vars, qvars, ivars>>(SyncCD)
  /\ WF_<<vars, qvars, ivars>>(SyncDeploy)
  /\ WF_<<vars, qvars, ivars>>(ReconcilePass)
  /\ WF_<<vars, qvars, ivars>>(DeployFinalizerDone)
  /\ WF_<<vars, qvars, ivars>>(ParentResync)

\* ----------------------------------------------- the work queue (client-go)
\* How often key k stands among the pending keys.
Count(k, seq) == Cardinality({i \in 1..Len(seq) : seq[i] = k})

\* Mutant: Add appends a key that no worker holds without looking at the
\* keys already marked.
WQAdd_noDedup(q, k) ==
  IF k \in q.processing THEN [q EXCEPT !.dirty = @ \cup {k}]
  ELSE [q EXCEPT !.dirty = @ \cup {k}, !.queue = Append(@, k)]

\* Mutant: Add does not look at the keys that workers hold.
WQAdd_ignoresProcessing(q, k) ==
  IF k \in q.dirty THEN q
  ELSE [q EXCEPT !.dirty = @ \cup {k}, !.queue = Append(@, k)]

\* queue.Add(key): a key that is already marked is not added again; a key
\* that a worker holds is marked and enters the queue at that worker's Done.
WQAdd(q, k) ==
  IF k \in q.dirty THEN q
  ELSE IF k \in q.processing THEN [q EXCEPT !.dirty = @ \cup {k}]
  ELSE [q EXCEPT !.dirty = @ \cup {k}, !.queue = Append(@, k)]

\* key, shutdown := queue.Get() on a queue that holds a key: the first
\* pending key, from now on held by the caller.
WQGet(q) ==
  LET k == Head(q.queue)
  IN [key |-> k,
      q |-> [queue |-> Tail(q.queue),
             dirty |-> q.dirty \ {k},
             processing |-> q.processing \cup {k}]]

\* Mutant: Done releases the key and drops the mark an Add left meanwhile.
WQDone_dropsDirty(q, k) ==
  [q EXCEPT !.processing = @ \ {k}, !.dirty = @ \ {k}]

\* queue.Done(key): the key is no longer held; if it was added meanwhile it
\* enters the queue now.
WQDone(q, k) ==
  LET released == [q EXCEPT !.processing = @ \ {k}]
  IN IF k \in q.dirty
     THEN [released EXCEPT !.queue = Append(@, k)]
     ELSE released

Max(a, b) == IF a >= b THEN a ELSE b
Min(a, b) == IF a =< b THEN a ELSE b

RECURSIVE Pow2(_)
Pow2(n) == IF n = 0 THEN 1 ELSE 2 * Pow2(n - 1)

\* Mutant: the backoff doubles without the cap.
ItemDelay_uncapped(n) == BaseDelay * Pow2(n)

\* ItemExponentialFailureRateLimiter.When for a key that failed n times
\* before: 5ms, 10ms, 20ms, ... at most 1000s.
ItemDelay(n) == Min(BaseDelay * Pow2(n), MaxDelay)

\* BucketRateLimiter.When with t tokens in the bucket: no wait while a token
\* is there, otherwise the time until the reserved token has been refilled.
BucketDelay(t) == IF t >= 1 THEN 0 ELSE (1 - t) * (1000 \div Qps)

\* MaxOfRateLimiter.When(key): every limiter is asked, the longest delay
\* counts; the key's failure is counted and a token is reserved.
When(f, t, k) ==
  [item |-> ItemDelay(f[k]),
   bucket |-> BucketDelay(t),
   failures |-> [f EXCEPT ![k] = @ + 1],
   tokens |-> t - 1]

\* The delay AddRateLimited hands to AddAfter.
Delay(d) == Max(d.item, d.bucket)

\* queue.NumRequeues(key)
NumRequeues(f, k) == f[k]

\* queue.Forget(key): clears the key's failure counter.
Forget(f, k) == [f EXCEPT ![k] = 0]

\* Mutant: the ceiling is compared with <= where the code has <.
Outcome_offByOne(err, requeues) ==
  IF ~err THEN "forget"
  ELSE IF requeues =< maxRetries THEN "retry"
  ELSE "giveup"

\* Mutant: a failed key is requeued whatever its count of requeues.
Outcome_alwaysRetry(err, requeues) == IF ~err THEN "forget" ELSE "retry"

\* The branch processNextItem takes once reconcile has returned.
Outcome(err, requeues) ==
  IF ~err THEN "forget"
  ELSE IF requeues < maxRetries THEN "retry"
  ELSE "giveup"

\* An entry of a worker's trace: the call, its key, and the key's
\* NumRequeues when the call was made.
Did(op, k) == [op |-> op, key |-> k, requeues |-> NumRequeues(failures, k)]

\* An event handler (AddFunc/UpdateFunc/DeleteFunc) calls queue.Add(key).
HandlerAdd(k) ==
  /\ adds < MaxAdds
  /\ adds' = adds + 1
  /\ wq' = WQAdd(wq, k)
  /\ inFlightAdd' = IF k \in wq.processing THEN inFlightAdd \cup {k}
                    ELSE inFlightAdd
  /\ finished' = NoRun
  /\ lastPop' = NoPop
  /\ UNCHANGED <<stopped, waiting, failures, pc, held, trace, tokens, lastDelay, vars,
                 informer, input>>

\* The delay of an AddAfter passes: the delaying queue calls Add(key).
TimerFires(k) ==
  /\ k \in waiting
  /\ waiting' = waiting \ {k}
  /\ wq' = WQAdd(wq, k)
  /\ inFlightAdd' = IF k \in wq.processing THEN inFlightAdd \cup {k}
                    ELSE inFlightAdd
  /\ finished' = NoRun
  /\ lastPop' = NoPop
  /\ UNCHANGED <<stopped, failures, pc, held, trace, adds, tokens, lastDelay, vars,
                 informer, input>>

\* Whether the queue is shutting down, which is what makes Get return
\* shutdown = true on an empty queue: only c.queue.ShutDown() does that,
\* and neither Run, which returns when stopCh is closed, nor anything else
\* calls it.
ShuttingDown(stop) == FALSE

\* processNextItem, step 1: key, shutdown := c.queue.Get(); the worker
\* returns from runWorker's loop when shutdown is true.
WorkerGet(w) ==
  /\ started
  /\ pc[w] = "get"
  /\ \/ /\ wq.queue # <<>>
        /\ LET g == WQGet(wq)
           IN /\ wq' = g.q
              /\ held' = [held EXCEPT ![w] = g.key]
              /\ trace' = [trace EXCEPT ![w] = <<Did("Get", g.key)>>]
              /\ inFlightAdd' = inFlightAdd \ {g.key}
        /\ pc' = [pc EXCEPT ![w] = "reconcile"]
     \/ /\ wq.queue = <<>>
        /\ ShuttingDown(stopped)
        /\ pc' = [pc EXCEPT ![w] = "exited"]
        /\ UNCHANGED <<wq, held, trace, inFlightAdd>>
  /\ finished' = NoRun
  /\ lastPop' = NoPop
  /\ UNCHANGED <<stopped, waiting, failures, adds, tokens, lastDelay, vars,
                 informer, input>>

\* c.podLister.Pods(namespace).Get(name): a read of the Indexer.
ListerGet(idx, k) == idx[k]

\* reconcile's results: nil when the lister finds no object; otherwise the
\* reconcile logic runs and returns nil or an error.
reconcile(idx, k) == IF ListerGet(idx, k) = NoObj THEN {FALSE} ELSE BOOLEAN

\* processNextItem, step 2: err := c.reconcile(key)
WorkerReconcile(w) ==
  /\ pc[w] = "reconcile"
  /\ \E err \in reconcile(indexer, held[w]) :
       /\ pc' = [pc EXCEPT ![w] = IF err THEN "failed" ELSE "succeeded"]
       /\ trace' = [trace EXCEPT ![w] =
                      Append(@, Did(IF err THEN "ReconcileErr" ELSE "ReconcileOk",
                                    held[w]))]
  /\ finished' = NoRun
  /\ lastPop' = NoPop
  /\ UNCHANGED <<stopped, wq, waiting, failures, held, inFlightAdd, adds, tokens,
               lastDelay, vars, informer, input>>

\* processNextItem, steps 3 to 5: Forget on success; AddRateLimited while
\* NumRequeues is below maxRetries; otherwise Forget and HandleError.
WorkerResult(w) ==
  /\ pc[w] \in {"failed", "succeeded"}
  /\ LET k == held[w]
         n == NumRequeues(failures, k)
         branch == Outcome(pc[w] = "failed", n)
         when == When(failures, tokens, k)
     IN /\ failures' = IF branch = "retry" THEN when.failures
                       ELSE Forget(failures, k)
        /\ tokens' = IF branch = "retry" THEN when.tokens ELSE tokens
        /\ waiting' = IF branch = "retry" THEN waiting \cup {k} ELSE waiting
        /\ trace' = [trace EXCEPT ![w] =
             @ \o (IF branch = "retry" THEN <<Did("AddRateLimited", k)>>
                   ELSE IF branch = "giveup"
                   THEN <<Did("Forget", k), Did("HandleError", k)>>
                   ELSE <<Did("Forget", k)>>)]
  /\ pc' = [pc EXCEPT ![w] = "done"]
  /\ finished' = NoRun
  /\ lastPop' = NoPop
  /\ UNCHANGED <<stopped, wq, held, inFlightAdd, adds, lastDelay, vars, informer, input>>

\* processNextItem: the deferred c.queue.Done(key) runs at the return.
WorkerDone(w) ==
  /\ pc[w] = "done"
  /\ wq' = WQDone(wq, held[w])
  /\ finished' = [worker |-> w,
                  calls |-> Append(trace[w], Did("Done", held[w]))]
  /\ trace' = [trace EXCEPT ![w] = <<>>]
  /\ held' = [held EXCEPT ![w] = NoKey]
  /\ pc' = [pc EXCEPT ![w] = "get"]
  /\ lastPop' = NoPop
  /\ UNCHANGED <<stopped, waiting, failures, inFlightAdd, adds, tokens, lastDelay, vars,
                 informer, input>>

\* A tenth of a second passes: the bucket is refilled by one token.
Tick ==
  /\ tokens < Burst
  /\ tokens' = tokens + 1
  /\ finished' = NoRun
  /\ lastPop' = NoPop
  /\ UNCHANGED <<stopped, wq, waiting, failures, pc, held, trace, inFlightAdd, adds,
                 lastDelay, vars, informer, input>>

QueueNext ==
  \/ \E k \in Keys : HandlerAdd(k)
  \/ \E k \in Keys : TimerFires(k)
  \/ \E w \in Workers : WorkerGet(w)
  \/ \E w \in Workers : WorkerReconcile(w)
  \/ \E w \in Workers : WorkerResult(w)
  \/ \E w \in Workers : WorkerDone(w)
  \/ Tick

\* The start of the specifications that are not about a CustomDeployment.
InternalInit == Init /\ variant = "internal"

\* The queue and its workers alone; no CustomDeployment is involved.
SpecQueue == InternalInit /\ [][QueueNext]_<<vars, qvars, ivars>>

\* A worker's next step through runWorker's loop.
WorkerStep(w) ==
  WorkerGet(w) \/ WorkerReconcile(w) \/ WorkerResult(w) \/ WorkerDone(w)

\* Run keeps every worker goroutine going (wait.Until(c.runWorker, ...)) and
\* the delaying queue's timers fire: a worker that can take a step takes
\* it, a delay that was set passes. Event handlers may stop calling Add.
SpecQueueFair ==
  /\ SpecQueue
  /\ \A w \in Workers : WF_<<vars, qvars, ivars>>(WorkerStep(w))
  /\ \A k \in Keys : WF_<<vars, qvars, ivars>>(TimerFires(k))

\* ------------------------------------------------ the rate limiter alone
\* rateLimiter.When(key), as AddRateLimited calls it.
LimiterWhen(k) ==
  /\ failures[k] < MaxFailures
  /\ tokens > 0 - MaxDebt
  /\ LET when == When(failures, tokens, k)
     IN /\ failures' = when.failures
        /\ tokens' = when.tokens
        /\ lastDelay' = [lastDelay EXCEPT ![k] =
                           [item |-> when.item, bucket |-> when.bucket]]
  /\ lastPop' = NoPop
  /\ UNCHANGED <<stopped, wq, waiting, pc, held, trace, finished, inFlightAdd, adds,
                 vars, informer, input>>

\* rateLimiter.Forget(key), as queue.Forget calls it.
LimiterForget(k) ==
  /\ failures' = Forget(failures, k)
  /\ lastDelay' = [lastDelay EXCEPT ![k] = NoDelay]
  /\ lastPop' = NoPop
  /\ UNCHANGED <<stopped, wq, waiting, pc, held, trace, finished, inFlightAdd, adds,
                 tokens, vars, informer, input>>

LimiterNext ==
  \/ \E k \in Keys : LimiterWhen(k)
  \/ \E k \in Keys : LimiterForget(k)
  \/ Tick

\* The rate limiter under any sequence of When and Forget calls.
SpecLimiter == InternalInit /\ [][LimiterNext]_<<vars, qvars, ivars>>

\* ------------------------------------------- the informer (client-go)
\* The orders in which a List may return the keys.
Orders ==
  {o \in [1..Cardinality(Keys) -> Keys] :
     \A i, j \in 1..Cardinality(Keys) : i # j => o[i] # o[j]}

\* Mutant: a new Delta replaces the Deltas that wait for its key.
FifoAdd_coalesces(f, k, d) ==
  [items |-> [f.items EXCEPT ![k] = <<d>>],
   queue |-> IF f.items[k] = <<>> THEN Append(f.queue, k) ELSE f.queue]

\* DeltaFIFO.Add / Update / Delete: the Delta joins the Deltas of its key,
\* and the key joins the queue unless it has Deltas waiting already.
FifoAdd(f, k, d) ==
  [items |-> [f.items EXCEPT ![k] = Append(@, d)],
   queue |-> IF f.items[k] = <<>> THEN Append(f.queue, k) ELSE f.queue]

RECURSIVE FifoAddAll(_, _)
FifoAddAll(f, ds) ==
  IF ds = <<>> THEN f
  ELSE FifoAddAll(FifoAdd(f, Head(ds).key, Head(ds).delta), Tail(ds))

\* Mutant: Replace stores the listed objects and detects no deletion.
Replace_noDeletions(f, known, list, order) ==
  LET listed == SelectSeq(order, LAMBDA k : list[k] # NoObj)
      syncs == [i \in 1..Len(listed) |->
                  [key |-> listed[i],
                   delta |-> [type |-> "Sync", obj |-> list[listed[i]]]]]
  IN FifoAddAll(f, syncs)

\* DeltaFIFO.Replace(list): a Sync Delta for every listed object, then a
\* Deleted Delta for every key the Indexer knows that the list lacks.
Replace(f, known, list, order) ==
  LET listed == SelectSeq(order, LAMBDA k : list[k] # NoObj)
      gone == SelectSeq(order, LAMBDA k : list[k] = NoObj /\ known[k] # NoObj)
      syncs == [i \in 1..Len(listed) |->
                  [key |-> listed[i],
                   delta |-> [type |-> "Sync", obj |-> list[listed[i]]]]]
      dels == [i \in 1..Len(gone) |->
                 [key |-> gone[i],
                  delta |-> [type |-> "Deleted", obj |-> known[gone[i]]]]]
  IN FifoAddAll(f, syncs \o dels)

\* The watch event of a write that replaces old by new.
Event(k, old, new) ==
  [type |-> IF new = NoObj THEN "Deleted"
            ELSE IF old = NoObj THEN "Added" ELSE "Modified",
   key |-> k,
   obj |-> IF new = NoObj THEN old ELSE new]

\* Reflector.Run's switch on event.Type: store.Add, Update or Delete.
DeltaOf(e) ==
  [type |-> IF e.type = "Added" THEN "Added"
            ELSE IF e.type = "Modified" THEN "Updated" ELSE "Deleted",
   obj |-> e.obj]

\* Mutant: the handler is called before the Indexer is updated.
HandleDelta_notifiesFirst(st, k, d) ==
  LET old == st.indexer[k]
      idx == [st.indexer EXCEPT
                ![k] = IF d.type = "Deleted" THEN NoObj ELSE d.obj]
      call == IF d.type = "Deleted" THEN "OnDelete"
              ELSE IF old = NoObj THEN "OnAdd" ELSE "OnUpdate"
  IN [indexer |-> idx,
      q |-> WQAdd(st.q, k),
      updates |-> st.updates + 1,
      notes |-> Append(st.notes,
                       [call |-> call, obj |-> d.obj,
                        seen |-> ListerGet(st.indexer, k),
                        updates |-> st.updates])]

\* Mutant: a Sync leaves an object that is cached as it is.
HandleDelta_keepsOnSync(st, k, d) ==
  LET old == st.indexer[k]
      idx == [st.indexer EXCEPT
                ![k] = IF d.type = "Deleted" THEN NoObj
                       ELSE IF d.type = "Sync" /\ old # NoObj THEN old
                       ELSE d.obj]
      call == IF d.type = "Deleted" THEN "OnDelete"
              ELSE IF old = NoObj THEN "OnAdd" ELSE "OnUpdate"
  IN [indexer |-> idx,
      q |-> WQAdd(st.q, k),
      updates |-> st.updates + 1,
      notes |-> Append(st.notes,
                       [call |-> call, obj |-> d.obj,
                        seen |-> ListerGet(idx, k),
                        updates |-> st.updates + 1])]

\* Mutant: the handler of a Sync does not add the key to the work queue.
HandleDelta_syncNotQueued(st, k, d) ==
  LET old == st.indexer[k]
      idx == [st.indexer EXCEPT
                ![k] = IF d.type = "Deleted" THEN NoObj ELSE d.obj]
      call == IF d.type = "Deleted" THEN "OnDelete"
              ELSE IF old = NoObj THEN "OnAdd" ELSE "OnUpdate"
  IN [indexer |-> idx,
      q |-> IF d.type = "Sync" THEN st.q ELSE WQAdd(st.q, k),
      updates |-> st.updates + 1,
      notes |-> Append(st.notes,
                       [call |-> call, obj |-> d.obj,
                        seen |-> ListerGet(idx, k),
                        updates |-> st.updates + 1])]

\* The informer's work on one Delta: it updates the Indexer, then calls the
\* registered handler, which calls queue.Add(key). A note keeps what the
\* handler was called with, what a lister Get of the key returned inside
\* it, and how many of the popped Deltas the Indexer held by then.
HandleDelta(st, k, d) ==
  LET old == st.indexer[k]
      idx == [st.indexer EXCEPT
                ![k] = IF d.type = "Deleted" THEN NoObj ELSE d.obj]
      call == IF d.type = "Deleted" THEN "OnDelete"
              ELSE IF old = NoObj THEN "OnAdd" ELSE "OnUpdate"
  IN [indexer |-> idx,
      q |-> WQAdd(st.q, k),
      updates |-> st.updates + 1,
      notes |-> Append(st.notes,
                       [call |-> call, obj |-> d.obj,
                        seen |-> ListerGet(idx, k),
                        updates |-> st.updates + 1])]

\* The process function of Pop: the Deltas of the key, oldest first.
RECURSIVE HandleDeltas(_, _, _)
HandleDeltas(st, k, deltas) ==
  IF deltas = <<>> THEN st
  ELSE HandleDeltas(HandleDelta(st, k, Head(deltas)), k, Tail(deltas))

\* informer.HasSynced: the first Replace is stored and all of it is popped.
HasSynced == populated /\ initial = 0

\* Mutant: Run does not wait for the cache.
WaitForCacheSync_skipped == TRUE

\* cache.WaitForCacheSync(stopCh, c.podsSynced) returns true.
WaitForCacheSync == HasSynced

\* Somebody writes to the API server: creates, updates or deletes the
\* object of a key. The server keeps the event for the Reflector's watch.
ServerWrite(k) ==
  /\ rv < MaxEvents
  /\ rv' = rv + 1
  /\ \E new \in {rv + 1} \cup (IF server[k] = NoObj THEN {} ELSE {NoObj}) :
       /\ server' = [server EXCEPT ![k] = new]
       /\ stream' = IF reflector \in {"watch", "closed"}
                    THEN Append(stream, Event(k, server[k], new))
                    ELSE stream
  /\ lastPop' = NoPop
  /\ finished' = NoRun
  /\ UNCHANGED <<stopped, resyncPeriod, lastList, closes, reflector, fifo, indexer, populated,
                 initial, snapshot, started, wq, waiting, failures, pc, held,
                 trace, inFlightAdd, adds, tokens, lastDelay, vars, input>>

\* Reflector.Run, step 1: List, then store.Replace(list, resourceVersion);
\* the watch that follows starts at the list's resourceVersion.
ReflectorList ==
  /\ reflector = "list"
  /\ \E order \in Orders : fifo' = Replace(fifo, indexer, server, order)
  /\ populated' = TRUE
  /\ initial' = IF populated THEN initial
                ELSE Cardinality({k \in Keys : server[k] # NoObj})
  /\ snapshot' = IF populated THEN snapshot ELSE server
  /\ reflector' = "watch"
  /\ lastList' = [fresh |-> TRUE, clean |-> fifo.queue = <<>>, objs |-> server]
  /\ lastPop' = NoPop
  /\ finished' = NoRun
  /\ UNCHANGED <<stopped, resyncPeriod, closes, server, rv, stream, indexer, started, wq, waiting,
                 failures, pc, held, trace, inFlightAdd, adds, tokens,
                 lastDelay, vars, input>>

\* Reflector.Run, step 2: the next event of the watch goes to the store.
ReflectorWatch ==
  /\ reflector = "watch"
  /\ stream # <<>>
  /\ fifo' = FifoAdd(fifo, Head(stream).key, DeltaOf(Head(stream)))
  /\ stream' = Tail(stream)
  /\ lastList' = NoList
  /\ lastPop' = NoPop
  /\ finished' = NoRun
  /\ UNCHANGED <<stopped, resyncPeriod, closes, server, rv, reflector, indexer, populated, initial,
                 snapshot, started, wq, waiting, failures, pc, held, trace,
                 inFlightAdd, adds, tokens, lastDelay, vars, input>>

\* Mutant: a watch that is answered "too old" is retried as if it had been
\* resumed.
AfterWatch_retries(expired) == "watch"

\* Where Reflector.Run goes after Watch(lastResourceVersion): the events
\* follow when the server resumed the stream, a new List when the version
\* has expired.
AfterWatch(expired) == IF expired THEN "list" ELSE "watch"

\* The server closes the connection of the watch.
WatchEnds ==
  /\ reflector = "watch"
  /\ closes < MaxCloses
  /\ closes' = closes + 1
  /\ reflector' = "closed"
  /\ lastPop' = NoPop
  /\ finished' = NoRun
  /\ UNCHANGED <<stopped, resyncPeriod, lastList, server, rv, stream, fifo, indexer, populated,
                 initial, snapshot, started, wq, waiting, failures, pc, held,
                 trace, inFlightAdd, adds, tokens, lastDelay, vars, input>>

\* Reflector.Run's loop calls Watch(lastResourceVersion) again. The server
\* resumes the stream from that version, or, when it has dropped events
\* written since, answers that the version is too old: those events are
\* lost to the watch.
ReflectorRewatch ==
  /\ reflector = "closed"
  /\ \E expired \in IF stream = <<>> THEN {FALSE} ELSE BOOLEAN :
       /\ reflector' = AfterWatch(expired)
       /\ stream' = IF expired THEN <<>> ELSE stream
  /\ lastPop' = NoPop
  /\ finished' = NoRun
  /\ UNCHANGED <<stopped, resyncPeriod, lastList, closes, server, rv, fifo, indexer, populated,
                 initial, snapshot, started, wq, waiting, failures, pc, held,
                 trace, inFlightAdd, adds, tokens, lastDelay, vars, input>>

\* The informer resyncs when its resync period is not zero.
ResyncEnabled(period) == period # 0

\* DeltaFIFO.Resync: every object in the Indexer is queued again, as a
\* Sync Delta.
Resync(f, idx, order) ==
  LET known == SelectSeq(order, LAMBDA k : idx[k] # NoObj)
      syncs == [i \in 1..Len(known) |->
                  [key |-> known[i],
                   delta |-> [type |-> "Sync", obj |-> idx[known[i]]]]]
  IN FifoAddAll(f, syncs)

\* The resync period has passed. Resyncs are followed while no key has
\* MaxDeltas Deltas waiting.
ResyncFires ==
  /\ ResyncEnabled(resyncPeriod)
  /\ populated
  /\ \A k \in Keys : Len(fifo.items[k]) < MaxDeltas
  /\ \E order \in Orders : fifo' = Resync(fifo, indexer, order)
  /\ lastList' = NoList
  /\ lastPop' = NoPop
  /\ finished' = NoRun
  /\ UNCHANGED <<stopped, resyncPeriod, closes, server, rv, reflector, stream, indexer,
                 populated, initial, snapshot, started, wq, waiting, failures,
                 pc, held, trace, inFlightAdd, adds, tokens, lastDelay, vars,
                 input>>

\* The informer pops the first key of the DeltaFIFO and handles its Deltas.
InformerPop ==
  /\ fifo.queue # <<>>
  /\ LET k == Head(fifo.queue)
         r == HandleDeltas([indexer |-> indexer, q |-> wq, updates |-> 0,
                            notes |-> <<>>], k, fifo.items[k])
     IN /\ fifo' = [items |-> [fifo.items EXCEPT ![k] = <<>>],
                    queue |-> Tail(fifo.queue)]
        /\ indexer' = r.indexer
        /\ wq' = r.q
        /\ inFlightAdd' = IF k \in wq.processing THEN inFlightAdd \cup {k}
                          ELSE inFlightAdd
        /\ lastPop' = [key |-> k, notes |-> r.notes]
  /\ initial' = IF initial > 0 THEN initial - 1 ELSE 0
  /\ finished' = NoRun
  /\ UNCHANGED <<stopped, resyncPeriod, lastList, closes, server, rv, reflector, stream, populated,
                 snapshot, started, waiting, failures, pc, held, trace, adds,
                 tokens, lastDelay, vars, input>>

\* Controller.Run: once WaitForCacheSync returns, the workers are launched.
Run ==
  /\ ~started
  /\ WaitForCacheSync
  /\ started' = TRUE
  /\ lastPop' = NoPop
  /\ finished' = NoRun
  /\ UNCHANGED <<stopped, resyncPeriod, lastList, closes, server, rv, reflector, stream, fifo,
                 indexer, populated, initial, snapshot, wq, waiting, failures,
                 pc, held, trace, inFlightAdd, adds, tokens, lastDelay, vars, input>>

ControllerNext ==
  \/ \E k \in Keys : ServerWrite(k)
  \/ ReflectorList
  \/ ReflectorWatch
  \/ WatchEnds
  \/ ReflectorRewatch
  \/ InformerPop
  \/ Run
  \/ \E k \in Keys : TimerFires(k)
  \/ \E w \in Workers : WorkerGet(w)
  \/ \E w \in Workers : WorkerReconcile(w)
  \/ \E w \in Workers : WorkerResult(w)
  \/ \E w \in Workers : WorkerDone(w)
  \/ Tick

\* NewController(...): a fresh queue and an informer that has not started
\* and does not resync.
ControllerInit ==
  /\ CDInit
  /\ variant = "internal"
  /\ QueueInit
  /\ InformerInit
  /\ resyncPeriod = 0
  /\ todo = NoInput
  /\ fed = 0

\* The controller from its construction: the informer starts from nothing,
\* fills the cache, and feeds the queue that the workers drain.
SpecController == ControllerInit /\ [][ControllerNext]_<<vars, qvars, ivars>>

InformerNext ==
  \/ \E k \in Keys : ServerWrite(k)
  \/ ReflectorList
  \/ ReflectorWatch
  \/ WatchEnds
  \/ ReflectorRewatch
  \/ ResyncFires
  \/ InformerPop

\* cache.NewSharedIndexInformer(..., resyncPeriod, ...), not started.
SharedInformerInit ==
  /\ CDInit
  /\ variant = "internal"
  /\ QueueInit
  /\ InformerInit
  /\ resyncPeriod \in {0, ResyncPeriod}
  /\ todo = NoInput
  /\ fed = 0

\* The informer alone, with and without resync: its handlers fill the
\* queue, no worker drains it.
SpecInformer == SharedInformerInit /\ [][InformerNext]_<<vars, qvars, ivars>>

\* ------------------------------------------------------ the stop signal
\* stopCh is closed: Run, which waits on <-stopCh, returns nil, and
\* wait.Until will not call runWorker again once it has returned.
Stop ==
  /\ ~stopped
  /\ stopped' = TRUE
  /\ finished' = NoRun
  /\ lastPop' = NoPop
  /\ UNCHANGED <<wq, waiting, failures, pc, held, trace, inFlightAdd, adds,
                 tokens, lastDelay, vars, informer, input>>

ShutdownNext == QueueNext \/ Stop

\* The queue and its workers, with a stop signal that may fire at any time.
SpecShutdown == InternalInit /\ [][ShutdownNext]_<<vars, qvars, ivars>>

\* ----------------------------------------- the DeltaFIFO fed directly
\* The Deltas a key may be fed with.
DeltaTypes == {"Added", "Updated", "Sync", "Deleted"}
DeltaSet == [type : DeltaTypes, obj : 1..MaxObjs]
Inputs ==
  [key : Keys,
   deltas : UNION {[1..n -> DeltaSet] : n \in 1..MaxDeltas}]

\* The producer stores the next Delta: DeltaFIFO.Add, Update or Delete, or
\* the Sync of a Replace.
StoreDelta ==
  /\ fed < Len(todo.deltas)
  /\ fifo' = FifoAdd(fifo, todo.key, todo.deltas[fed + 1])
  /\ fed' = fed + 1
  /\ lastPop' = NoPop
  /\ finished' = NoRun
  /\ UNCHANGED <<stopped, resyncPeriod, todo, lastList, closes, server, rv, reflector, stream,
                 indexer, populated, initial, snapshot, started, wq, waiting,
                 failures, pc, held, trace, inFlightAdd, adds, tokens,
                 lastDelay, vars>>

DeltasInit ==
  /\ CDInit
  /\ variant = "internal"
  /\ QueueInit
  /\ InformerInit
  /\ resyncPeriod = 0
  /\ todo \in Inputs
  /\ fed = 0

DeltasNext == StoreDelta \/ InformerPop

\* Any sequence of Deltas of one key, stored and popped in any interleaving.
SpecDeltas == DeltasInit /\ [][DeltasNext]_<<vars, qvars, ivars>>

\* ---------------------------- the ConfigMap-to-Secret controller, as it runs
\* kubectl creates the ConfigMap, with or without the sync annotation.
ConfigMapCreate ==
  /\ ~configMap.exists
  /\ configMap.uid < MaxUids
  /\ \E a \in BOOLEAN, d \in DataSet :
       configMap' = [exists |-> TRUE, uid |-> configMap.uid + 1,
                     annotated |-> a, data |-> d]
  /\ lastSync' = NoSync
  /\ UNCHANGED <<secret, variant, cd, dep, cacheCD, cacheDep, created, last, prev, qvars, ivars, tvars>>

\* kubectl changes the ConfigMap: keys added, changed or removed, the
\* annotation set or removed.
ConfigMapEdit ==
  /\ configMap.exists
  /\ \E a \in BOOLEAN, d \in DataSet :
       /\ <<a, d>> # <<configMap.annotated, configMap.data>>
       /\ configMap' = [configMap EXCEPT !.annotated = a, !.data = d]
  /\ lastSync' = NoSync
  /\ UNCHANGED <<secret, variant, cd, dep, cacheCD, cacheDep, created, last, prev, qvars, ivars, tvars>>

\* kubectl deletes the ConfigMap.
ConfigMapDelete ==
  /\ configMap.exists
  /\ configMap' = [NoConfigMap EXCEPT !.uid = configMap.uid]
  /\ lastSync' = NoSync
  /\ UNCHANGED <<secret, variant, cd, dep, cacheCD, cacheDep, created, last, prev, qvars, ivars, tvars>>

\* The garbage collector deletes a Secret whose owner is gone.
SecretCollected ==
  /\ secret.exists
  /\ secret.owner # 0
  /\ ~configMap.exists \/ configMap.uid # secret.owner
  /\ secret' = NoSecret
  /\ lastSync' = NoSync
  /\ UNCHANGED <<configMap, variant, cd, dep, cacheCD, cacheDep, created, last, prev, qvars, ivars, tvars>>

\* Someone else creates a Secret of the synced name: it has no owner.
UserCreateSecret ==
  /\ ~secret.exists
  /\ \E d \in DataSet :
       secret' = [exists |-> TRUE, data |-> d, labels |-> "user", owner |-> 0]
  /\ lastSync' = NoSync
  /\ UNCHANGED <<configMap, variant, cd, dep, cacheCD, cacheDep, created, last, prev, qvars, ivars, tvars>>

\* One pass for the name, whatever queued it: an event of the ConfigMap,
\* an event of the Secret it owns, or a retry.
ConfigMapSync ==
  \E fault \in SyncFaults :
    LET r == ReconcileConfigMap(configMap, secret, fault) IN
    /\ secret' = r.secret
    /\ lastSync' = [ran |-> TRUE, before |-> secret,
                    calls |-> r.calls, err |-> r.err]
    /\ UNCHANGED <<configMap, variant, cd, dep, cacheCD, cacheDep, created, last, prev, qvars, ivars, tvars>>

ConfigMapNext ==
  \/ ConfigMapCreate
  \/ ConfigMapEdit
  \/ ConfigMapDelete
  \/ SecretCollected
  \/ UserCreateSecret
  \/ ConfigMapSync

SpecConfigMap == InternalInit /\ [][ConfigMapNext]_<<vars, qvars, ivars>>

\* The calls of the latest pass that went to the Secret.
SecretCalls ==
  {i \in 1..Len(lastSync.calls) : lastSync.calls[i].kind = "secret"}

\* The results of the latest pass's calls of the given verb to the Secret.
SecretOp(op) ==
  {lastSync.calls[i].res : i \in {j \in SecretCalls : lastSync.calls[j].op = op}}

\* The latest step was a pass that found the ConfigMap with the annotation.
SyncedPass == lastSync.ran /\ lastSync.calls[1].res = "ok" /\ configMap.annotated

\* ------------------------------------------------- reading the last pass
Fin == customDeploymentFinalizer

\* The parent and the Deployment as the pass read them, and how the reads
\* ended.
CdRead == last.calls[1].obj
CdFound == last.ran /\ last.calls[1].res = "ok"
DepGets == Issued(last.calls, "Get", "deploy")
DepReadRes == IF DepGets = {} THEN "none" ELSE last.calls[2].res
DepRead == last.calls[2].obj

CallsOf(op, kind) == Issued(last.calls, op, kind)
ParentWrites == CallsOf("Update", "cd") \cup CallsOf("UpdateStatus", "cd")
DeployWrites ==
  CallsOf("Create", "deploy") \cup CallsOf("Update", "deploy")
    \cup CallsOf("Delete", "deploy")

\* The pass ran the finalizer-aware Reconcile on a parent in the given state.
InternalPass(deleting, hasFin) ==
  /\ CdFound
  /\ variant = "internal"
  /\ CdRead.deleting = deleting
  /\ (Fin \in CdRead.finalizers) = hasFin

\* The pass ran the create/update convergence for the parent: every pass of
\* the finalizer-less Reconcile that found an active parent, and the passes
\* of the finalizer-aware one on an active parent that holds the finalizer.
ConvergencePass ==
  /\ CdFound
  /\ ~CdRead.deleting
  /\ variant = "internal" => Fin \in CdRead.finalizers

\* ---------------------------------------------------------------- claims

\* C1: on a parent with DeletionTimestamp set and the finalizer present, a
\* pass issues the Update that removes the finalizer only if its read of the
\* Deployment returned not-found; when the Deployment was found, terminating
\* or not, the pass writes nothing to the parent and the finalizer stays.
C1_FinalizerRemovedOnlyAfterNotFound ==
  InternalPass(TRUE, TRUE) =>
    /\ ParentWrites # {} => DepReadRes = "notfound"
    /\ DepReadRes = "ok" =>
         /\ ParentWrites = {}
         /\ last.fresh => cd.exists /\ Fin \in cd.finalizers

C1_Witness ==
  /\ InternalPass(TRUE, TRUE)
  /\ DepReadRes = "ok"
  /\ DepRead.deleting
  /\ last.fresh
  /\ Fin \in cd.finalizers

\* C2: a parent whose deletion was requested while it holds the finalizer
\* stays in the API server, and in the cache, with the finalizer on it: the
\* only step that takes the finalizer off or removes the parent is a
\* Reconcile pass whose read of the Deployment returned not-found and whose
\* Update removed the finalizer.
C2_ParentHeldUntilTeardown ==
  [][(cd.exists /\ cd.deleting /\ Fin \in cd.finalizers) =>
       /\ cacheCD.exists
       /\ \/ cd'.exists /\ cd'.deleting /\ Fin \in cd'.finalizers
          \/ /\ last'.ran
             /\ Issued(last'.calls, "Get", "deploy") # {}
             /\ last'.calls[2].res = "notfound"
             /\ \E i \in Issued(last'.calls, "Update", "cd") :
                  /\ last'.calls[i].res = "ok"
                  /\ Fin \notin last'.calls[i].obj.finalizers]_vars

C2_Witness ==
  /\ InternalPass(TRUE, TRUE)
  /\ CallsOf("Delete", "deploy") # {}
  /\ dep.exists
  /\ cd.exists /\ cd.deleting /\ Fin \in cd.finalizers
  /\ cacheCD.exists

\* C3 as stated: on a parent with DeletionTimestamp set and the finalizer
\* present, when the read of the Deployment reports not-found the pass
\* issues the Update that removes the finalizer, issues no Delete and
\* returns no error.
C3_Original ==
  (InternalPass(TRUE, TRUE) /\ DepReadRes = "notfound") =>
    /\ \E i \in CallsOf("Update", "cd") :
         Fin \notin last.calls[i].obj.finalizers
    /\ CallsOf("Delete", "deploy") = {}
    /\ ~last.err

\* C3 amended: in that case the pass issues exactly one write, the Update of
\* the parent as read with only the finalizer taken off, and no Delete; it
\* returns no error exactly when that Update succeeds, and the stored parent
\* then no longer carries the finalizer.
C3_NotFoundIsTeardownSuccess ==
  (InternalPass(TRUE, TRUE) /\ DepReadRes = "notfound") =>
    /\ Len(last.calls) = 3
    /\ IsCall(last.calls[3], "Update", "cd")
    /\ last.calls[3].obj = [CdRead EXCEPT !.finalizers = @ \ {Fin}]
    /\ last.err = (last.calls[3].res # "ok")
    /\ ~last.err => ~(cd.exists /\ Fin \in cd.finalizers)

C3_Witness ==
  /\ InternalPass(TRUE, TRUE)
  /\ DepReadRes = "notfound"
  /\ ~last.err
  /\ OtherFinalizer \in CdRead.finalizers
  /\ cd.exists /\ cd.finalizers = {OtherFinalizer}

\* C4 as stated: while teardown is pending (DeletionTimestamp set, finalizer
\* present, Deployment found) a pass returns an error or asks for a requeue.
C4_PendingTeardownIsNonTerminal ==
  (InternalPass(TRUE, TRUE) /\ DepReadRes = "ok") =>
    last.err \/ last.requeue

\* C5: on a parent with zero DeletionTimestamp and without the finalizer the
\* pass makes two calls, the read of the parent and one Update of the parent
\* as read with the finalizer added; it reads or writes no Deployment and
\* writes no status, and fails only if that Update fails.
C5_AddFinalizerOnly ==
  InternalPass(FALSE, FALSE) =>
    /\ Len(last.calls) = 2
    /\ IsCall(last.calls[2], "Update", "cd")
    /\ last.calls[2].obj = [CdRead EXCEPT !.finalizers = @ \cup {Fin}]
    /\ last.err = (last.calls[2].res # "ok")

C5_Witness ==
  /\ InternalPass(FALSE, FALSE)
  /\ OtherFinalizer \in CdRead.finalizers
  /\ last.calls[2].res = "ok"
  /\ cd.finalizers = {Fin, OtherFinalizer}

\* C6: a convergence pass on an active parent whose read of the Deployment
\* returned not-found issues exactly one Create, as its third call, for a
\* Deployment with the parent's namespace and name and with replicas equal
\* to the parent's spec.replicas, carrying exactly one owner reference, the
\* parent with the controller flag set; the pass issues no Update of the
\* Deployment.
C6_CreateOnceWithControllerRef ==
  (ConvergencePass /\ DepReadRes = "notfound") =>
    /\ Cardinality(CallsOf("Create", "deploy")) = 1
    /\ IsCall(last.calls[3], "Create", "deploy")
    /\ last.calls[3].obj.name = CdRead.name
    /\ last.calls[3].obj.replicas = CdRead.replicas
    /\ last.calls[3].obj.owners = {[owner |-> "cd", controller |-> TRUE]}
    /\ CallsOf("Update", "deploy") = {}
    /\ CallsOf("Delete", "deploy") = {}

C6_Witness ==
  /\ ConvergencePass
  /\ variant = "internal"
  /\ DepReadRes = "notfound"
  /\ last.calls[3].res = "ok"
  /\ dep.exists
  /\ dep.replicas = CdRead.replicas
  /\ \E o \in dep.owners : o.controller

\* C7: a convergence pass that read a Deployment whose replicas are unset or
\* differ from the parent's spec.replicas issues exactly one Update of the
\* Deployment, as its third call: the object as read with only the replicas
\* set to the desired value; it issues no Create, and when the Update
\* succeeds the stored Deployment is that object.
C7_UpdateOnlyReplicas ==
  (/\ ConvergencePass
   /\ DepReadRes = "ok"
   /\ (DepRead.replicas = NilReplicas \/ DepRead.replicas # CdRead.replicas)) =>
    /\ Cardinality(CallsOf("Update", "deploy")) = 1
    /\ IsCall(last.calls[3], "Update", "deploy")
    /\ last.calls[3].obj = [DepRead EXCEPT !.replicas = CdRead.replicas]
    /\ CallsOf("Create", "deploy") = {}
    /\ last.calls[3].res = "ok" => dep = last.calls[3].obj

C7_Witness ==
  /\ ConvergencePass
  /\ DepReadRes = "ok"
  /\ DepRead.replicas = NilReplicas
  /\ DepRead.labels = "user"
  /\ DepRead.avail # 0
  /\ last.calls[3].res = "ok"
  /\ dep.labels = "user"
  /\ dep.replicas = CdRead.replicas

\* C8 as stated: when a pass returned success and the next pass follows it
\* with nothing changed in between but the cache catching up with the first
\* pass's own writes, the second pass issues no write.
C8_Original ==
  (last.ran /\ last.fresh
     /\ last.after \in {"addedFinalizer", "deleted", "settled"}) =>
    Writes(last.calls) = <<>>

\* C8 amended: the second of two such passes issues no Create, Update,
\* Delete or status write provided the first returned success and was
\* neither the pass that added the finalizer nor a pass that issued the
\* Delete of the Deployment.
C8_SecondPassWritesNothing ==
  (last.ran /\ last.fresh /\ last.after = "settled") =>
    Writes(last.calls) = <<>>

C8_Witness ==
  /\ last.ran
  /\ last.fresh
  /\ last.after = "settled"
  /\ ConvergencePass
  /\ variant = "internal"
  /\ DepReadRes = "ok"
  /\ DepRead.owners # {}
  /\ DepRead.replicas = CdRead.replicas
  /\ CdRead.avail # 0

\* C9: on a parent with DeletionTimestamp set that does not carry the
\* finalizer the pass makes the read of the parent its only call and
\* returns success without a requeue.
C9_DeletingWithoutFinalizerIsTerminal ==
  InternalPass(TRUE, FALSE) =>
    /\ Len(last.calls) = 1
    /\ ~last.err
    /\ ~last.requeue

C9_Witness ==
  /\ InternalPass(TRUE, FALSE)
  /\ OtherFinalizer \in CdRead.finalizers
  /\ dep.exists
  /\ cacheDep.exists

\* The Deployment's AvailableReplicas a convergence pass compares with the
\* parent's: those of the object it read, or of the object it just created.
Observed == IF CallsOf("Create", "deploy") # {} THEN 0 ELSE DepRead.avail

\* The create/update step of a convergence pass completed.
ConvergedStep ==
  /\ ConvergencePass
  /\ DepReadRes \in {"ok", "notfound"}
  /\ \A i \in DeployWrites : last.calls[i].res = "ok"

\* C10: after the create/update step of a convergence pass the status is
\* written at most once, and it is written exactly when the parent's
\* AvailableReplicas as read differ from the Deployment's observed ones; what
\* is written is the parent as read with the observed value.
C10_StatusWrittenIffDiffers ==
  ConvergedStep =>
    /\ Cardinality(CallsOf("UpdateStatus", "cd")) <= 1
    /\ (CallsOf("UpdateStatus", "cd") # {}) = (CdRead.avail # Observed)
    /\ \A i \in CallsOf("UpdateStatus", "cd") :
         last.calls[i].obj = [CdRead EXCEPT !.avail = Observed]
    /\ CallsOf("Update", "cd") = {}

C10_Witness ==
  /\ ConvergedStep
  /\ CallsOf("Update", "deploy") # {}
  /\ \E i \in CallsOf("UpdateStatus", "cd") : last.calls[i].res = "ok"
  /\ Observed # 0
  /\ cd.avail = Observed

\* C11: a pass whose read of the parent reports not-found issues no further
\* call, so no write, and returns success without an error and without a
\* requeue; a pass whose read of the parent fails with any other error
\* returns that error, again without a write.
C11_NotFoundOnReadIsSuccess ==
  last.ran =>
    /\ last.calls[1].op = "Get" /\ last.calls[1].kind = "cd"
    /\ last.calls[1].res = "notfound" =>
         /\ Writes(last.calls) = <<>>
         /\ Len(last.calls) = 1
         /\ ~last.err
         /\ ~last.requeue
    /\ last.calls[1].res = "error" =>
         /\ Writes(last.calls) = <<>>
         /\ last.err

\* A pass ran for a key whose parent the cache no longer holds.
C11_Witness ==
  /\ last.ran
  /\ created
  /\ last.calls[1].res = "notfound"
  /\ ~last.err

\* C12: a write of a pass (Update of the parent, Create, Update or Delete of
\* the Deployment, Update of the parent's status) that fails with an
\* optimistic-concurrency conflict is the last call of the pass, and the pass
\* returns an error.
C12_ConflictEndsThePass ==
  last.ran =>
    \A i \in 1..Len(last.calls) :
      (last.calls[i].op # "Get" /\ last.calls[i].res = "conflict") =>
        /\ i = Len(last.calls)
        /\ last.err

\* A pass read a stale Deployment, and its Update of the Deployment was
\* refused with a conflict.
C12_Witness ==
  /\ last.ran
  /\ ~last.fresh
  /\ \E i \in CallsOf("Update", "deploy") : last.calls[i].res = "conflict"

Holds(w) == pc[w] # "get"

Ops(calls) == [i \in 1..Len(calls) |-> calls[i].op]

\* The three ways through processNextItem.
OnSuccess == <<"Get", "ReconcileOk", "Forget", "Done">>
OnRetry == <<"Get", "ReconcileErr", "AddRateLimited", "Done">>
OnGiveUp == <<"Get", "ReconcileErr", "Forget", "HandleError", "Done">>

IsPrefix(s, t) == Len(s) =< Len(t) /\ s = SubSeq(t, 1, Len(s))

\* The calls follow one of the three ways, each for the same key, with
\* AddRateLimited called below maxRetries only and HandleError at or above.
OnOnePath(calls) ==
  /\ \E path \in {OnSuccess, OnRetry, OnGiveUp} : IsPrefix(Ops(calls), path)
  /\ \A i \in 1..Len(calls) :
       /\ calls[i].key = calls[1].key
       /\ calls[i].op = "AddRateLimited" => calls[i].requeues < maxRetries
       /\ calls[i].op = "HandleError" => calls[i].requeues >= maxRetries

\* C15: what a worker does for a key it got from Get is, call by call, one
\* of: Reconcile, Forget, Done (success); Reconcile, AddRateLimited, Done
\* (failure, NumRequeues below maxRetries); Reconcile, Forget, HandleError,
\* Done (failure, NumRequeues at maxRetries or above); every call is for the
\* key of the Get, Reconcile is called once and Done once, as the last call
\* before the worker returns.
C15_OneOutcomeThenDone ==
  /\ \A w \in Workers :
       /\ OnOnePath(trace[w])
       /\ Holds(w) <=> trace[w] # <<>>
       /\ Holds(w) => trace[w][1].key = held[w] /\ Ops(trace[w]) \notin
                                                   {OnSuccess, OnRetry, OnGiveUp}
  /\ finished.worker # 0 =>
       /\ OnOnePath(finished.calls)
       /\ Ops(finished.calls) \in {OnSuccess, OnRetry, OnGiveUp}

\* A worker is back from a failed Reconcile of a key whose retries were used
\* up: it called Forget, HandleError and Done.
C15_Witness ==
  finished.worker # 0 /\ Ops(finished.calls) = OnGiveUp

\* No key is pending, delayed or held.
Quiescent ==
  /\ wq.queue = <<>>
  /\ waiting = {}
  /\ \A w \in Workers : ~Holds(w)

\* C16: a worker re-adds a failed key with AddRateLimited only while the
\* key's failure count is below maxRetries, so the count never exceeds
\* maxRetries; a worker that finds the count at the ceiling forgets the key
\* (the count is zero again), reports the error and does not re-add the key;
\* and once the event handlers add no more keys, the retries come to an end:
\* from some point on no key is pending, delayed or held, even if every
\* Reconcile fails.
C16_RetriesEnd ==
  /\ [](\A k \in Keys : failures[k] =< maxRetries)
  /\ [](\A w \in Workers :
          (pc[w] = "done" /\ trace[w][2].op = "ReconcileErr") =>
            IF trace[w][3].requeues < maxRetries
            THEN /\ Ops(trace[w]) = SubSeq(OnRetry, 1, 3)
                 /\ failures[held[w]] = trace[w][3].requeues + 1
            ELSE /\ Ops(trace[w]) = SubSeq(OnGiveUp, 1, 4)
                 /\ failures[held[w]] = 0)
  /\ <>[]Quiescent

\* A key failed until its retries were used up: its worker reported the
\* error and returned, the key's count is zero again, and nothing is left
\* that would deliver the key once more.
C16_Witness ==
  /\ finished.worker # 0
  /\ Ops(finished.calls) = OnGiveUp
  /\ failures[finished.calls[1].key] = 0
  /\ Quiescent

\* The keys that are pending.
Pending == {wq.queue[i] : i \in 1..Len(wq.queue)}

\* C18: each key occurs at most once among the pending keys, and an Add of a
\* key that is pending and not held leaves the queue as it was.
C18_AddOfPendingKeyIsNoOp ==
  /\ [](\A k \in Keys : Count(k, wq.queue) =< 1)
  /\ [][\A k \in Keys :
          (HandlerAdd(k) /\ k \in Pending /\ k \notin wq.processing) =>
            wq' = wq]_qvars

\* The same key was added twice and not obtained yet: it is pending once.
C18_Witness ==
  /\ adds = 2
  /\ Len(wq.queue) = 1
  /\ wq.processing = {}
  /\ \A w \in Workers : trace[w] = <<>>
  /\ finished = NoRun

\* The delay of the key's latest AddRateLimited, if there was one since its
\* latest Forget.
Delayed(k) == lastDelay[k] # NoDelay

\* C17 as claimed: the delay AddRateLimited computes for a key does not
\* decrease from one failure of the key to the next, is at most the
\* configured maximum, and is the base delay on the first failure after a
\* Forget.
C17_Original ==
  /\ [](\A k \in Keys :
          Delayed(k) =>
            /\ Delay(lastDelay[k]) =< MaxDelay
            /\ failures[k] = 1 => Delay(lastDelay[k]) = BaseDelay)
  /\ [][\A k \in Keys :
          (LimiterWhen(k) /\ Delayed(k)) =>
            Delay(lastDelay'[k]) >= Delay(lastDelay[k])]_qvars

\* C17, amended: the delay is the larger of the key's exponential backoff
\* and the wait of the token bucket that all keys share; the key's backoff
\* does not decrease from one failure of the key to the next, is at most the
\* configured maximum and is the base delay on the first failure after a
\* Forget; the delay is that backoff whenever the bucket held a token; and a
\* When or a Forget of one key leaves the failure counters of the other keys
\* as they were.
C17_BackoffPerKey ==
  /\ [](\A k \in Keys :
          Delayed(k) =>
            /\ lastDelay[k].item =< MaxDelay
            /\ failures[k] = 1 => lastDelay[k].item = BaseDelay
            /\ Delay(lastDelay[k]) >= lastDelay[k].item
            /\ lastDelay[k].bucket = 0 =>
                 Delay(lastDelay[k]) = lastDelay[k].item)
  /\ [][\A k \in Keys :
          /\ (LimiterWhen(k) /\ Delayed(k)) =>
               lastDelay'[k].item >= lastDelay[k].item
          /\ (LimiterWhen(k) \/ LimiterForget(k)) =>
               \A j \in Keys \ {k} : failures'[j] = failures[j]]_qvars

\* A key has failed often enough for its backoff to stand at the maximum,
\* while the other key's counter is still at its first failure.
C17_Witness ==
  \E k, j \in Keys :
    /\ k # j
    /\ Delayed(k) /\ lastDelay[k].item = MaxDelay
    /\ failures[j] = 1 /\ lastDelay[j].item = BaseDelay

\* C19 (cache before notify): in every handler call the informer makes
\* while it handles a popped key, a lister Get of the key made inside the
\* handler returns the state of the event (the new object for an add or an
\* update, nothing for a delete), and the i-th call of the Pop is made when
\* the Indexer holds exactly the first i of the popped Deltas, so handlers
\* run in the order of the Indexer's updates.
C19_CacheBeforeNotify ==
  \A i \in 1..Len(lastPop.notes) :
    LET n == lastPop.notes[i]
    IN /\ n.seen = (IF n.call = "OnDelete" THEN NoObj ELSE n.obj)
       /\ n.updates = i

\* One Pop called the add handler and then the delete handler of a key.
C19_Witness ==
  \E i, j \in 1..Len(lastPop.notes) :
    /\ i < j
    /\ lastPop.notes[i].call = "OnAdd"
    /\ lastPop.notes[i].seen # NoObj
    /\ lastPop.notes[j].call = "OnDelete"

\* C20 (cache-sync barrier): no worker takes a key before the Indexer holds
\* all of the first List, so a reconcile that finds no object in the cache
\* is about a key the first List did not return or whose listed object was
\* deleted or replaced at the server since.
C20_CacheSyncBarrier ==
  /\ (\E w \in Workers : Holds(w)) \/ wq.processing # {}
       => /\ HasSynced
          /\ \A k \in Keys :
               snapshot[k] # NoObj /\ server[k] = snapshot[k]
                 => ListerGet(indexer, k) = snapshot[k]
  /\ \A w \in Workers :
       pc[w] = "reconcile" /\ ListerGet(indexer, held[w]) = NoObj
         => \/ snapshot[held[w]] = NoObj
            \/ server[held[w]] # snapshot[held[w]]

\* A worker is about to reconcile a key of the first List and the cache
\* holds the listed object, while another listed key is still unchanged.
C20_Witness ==
  \E w \in Workers :
    /\ pc[w] = "reconcile"
    /\ snapshot[held[w]] # NoObj
    /\ ListerGet(indexer, held[w]) = snapshot[held[w]]
    /\ \E k \in Keys \ {held[w]} : snapshot[k] # NoObj

\* The Deltas a Pop handed to its process function, read from the handler
\* calls it made: a Deleted Delta is an OnDelete call with its object.
Delivered(notes) ==
  [i \in 1..Len(notes) |->
     [deleted |-> notes[i].call = "OnDelete", obj |-> notes[i].obj]]

Arrived(deltas) ==
  [i \in 1..Len(deltas) |->
     [deleted |-> deltas[i].type = "Deleted", obj |-> deltas[i].obj]]

\* C21 (per-key order and coalescing): a key is in the DeltaFIFO's queue
\* once, and exactly when it has Deltas waiting; a Delta the Reflector adds
\* goes to the end of its key's Deltas and leaves every other Delta as it
\* was, a terminal Deleted included; and a Pop hands over all Deltas of the
\* first key, in their order of arrival, and the Indexer then holds what
\* the last of them says.
C21_PerKeyOrder ==
  /\ [](\A k \in Keys :
          /\ Count(k, fifo.queue) <= 1
          /\ (Count(k, fifo.queue) = 1) <=> (fifo.items[k] # <<>>))
  /\ [][/\ ReflectorWatch =>
             LET e == Head(stream)
             IN /\ fifo'.items[e.key] =
                     Append(fifo.items[e.key], DeltaOf(e))
                /\ \A k \in Keys \ {e.key} : fifo'.items[k] = fifo.items[k]
                /\ e.type = "Deleted" =>
                     fifo'.items[e.key][Len(fifo'.items[e.key])].type
                       = "Deleted"
        /\ InformerPop =>
             LET k == Head(fifo.queue)
                 ds == fifo.items[k]
             IN /\ lastPop'.key = k
                /\ Delivered(lastPop'.notes) = Arrived(ds)
                /\ fifo'.items[k] = <<>>
                /\ \A j \in Keys \ {k} : fifo'.items[j] = fifo.items[j]
                /\ indexer'[k] = (IF ds[Len(ds)].type = "Deleted" THEN NoObj
                                  ELSE ds[Len(ds)].obj)]_<<vars, qvars, ivars>>

\* A key was added twice before it was popped, the second time with its
\* deletion: one slot holds both Deltas.
C21_Witness ==
  \E k \in Keys :
    /\ Count(k, fifo.queue) = 1
    /\ Len(fifo.items[k]) = 2
    /\ fifo.items[k][2].type = "Deleted"

KeysOf(objs) == {k \in Keys : objs[k] # NoObj}

\* The Replace of the latest List is drained and nothing else was stored
\* in the DeltaFIFO since.
Drained == lastList.fresh /\ fifo.queue = <<>>

Final(deltas) ==
  LET d == deltas[Len(deltas)]
  IN IF d.type = "Deleted" THEN NoObj ELSE d.obj

\* C23 (the Indexer ends on the last Delta): once all Deltas of a key are
\* stored and the DeltaFIFO is drained, the Indexer holds the object of the
\* last Delta, or nothing for the key when the last Delta is Deleted,
\* however the Deltas were split over Pops.
C23_IndexerEndsOnLastDelta ==
  fed = Len(todo.deltas) /\ fifo.queue = <<>> /\ fed > 0
    => ListerGet(indexer, todo.key) = Final(todo.deltas)

\* Three Deltas ending in Deleted are drained; the last Pop handled the
\* Deleted alone, so they were split over at least two Pops.
C23_Witness ==
  /\ fed = 3
  /\ Len(todo.deltas) = 3
  /\ fifo.queue = <<>>
  /\ todo.deltas[2].type = "Sync"
  /\ todo.deltas[3].type = "Deleted"
  /\ lastPop.key = todo.key
  /\ Len(lastPop.notes) = 1
  /\ ListerGet(indexer, todo.key) = NoObj

\* Some Deltas with every Sync among them turned into an Updated.
AsUpdated(deltas) ==
  [i \in 1..Len(deltas) |->
     IF deltas[i].type = "Sync" THEN [deltas[i] EXCEPT !.type = "Updated"]
     ELSE deltas[i]]

\* C26 (resync): a resync happens only under a resync period that is not
\* zero; it stores one more Delta, a Sync with the cached object, for every
\* key in the Indexer and nothing for any other key; and a Pop handles a
\* Sync exactly as it would handle an Updated with the same object: the
\* same Indexer, the same handler calls and the same Add of the key to the
\* work queue, which then has the key marked for a Reconcile.
C26_Resync ==
  [][/\ ResyncFires =>
          /\ resyncPeriod # 0
          /\ \A k \in Keys :
               fifo'.items[k] =
                 IF indexer[k] # NoObj
                 THEN Append(fifo.items[k],
                             [type |-> "Sync", obj |-> indexer[k]])
                 ELSE fifo.items[k]
     /\ resyncPeriod = 0 /\ fifo' # fifo =>
          ReflectorList \/ ReflectorWatch \/ InformerPop
     /\ InformerPop =>
          LET k == Head(fifo.queue)
              st == [indexer |-> indexer, q |-> wq, updates |-> 0,
                     notes |-> <<>>]
              r == HandleDeltas(st, k, AsUpdated(fifo.items[k]))
          IN /\ indexer' = r.indexer
             /\ wq' = r.q
             /\ lastPop'.notes = r.notes
             /\ k \in wq'.dirty]_<<vars, qvars, ivars>>

\* Without any change at the server and without a second List, a Pop has
\* called the update handler with the object of the first List, and the
\* key is queued for a Reconcile: the Delta came from a resync.
C26_Witness ==
  /\ resyncPeriod # 0
  /\ closes = 0
  /\ stream = <<>>
  /\ server = snapshot
  /\ \E k \in Keys :
       /\ lastPop.key = k
       /\ Len(lastPop.notes) = 1
       /\ lastPop.notes[1].call = "OnUpdate"
       /\ lastPop.notes[1].obj = snapshot[k]
       /\ k \in wq.dirty

\* C25 (shutdown), its first part in the form a single state refutes: once
\* the stop signal has fired, a worker's Get does not block; it returns a
\* key, or the shutdown flag when the queue is empty.
C25_GetReturnsAfterStop ==
  \A w \in Workers : stopped /\ pc[w] = "get" => ENABLED WorkerGet(w)

\* C27: after a successful pass on an annotated ConfigMap, whatever changes
\* to its data came before (keys added, modified, removed), the Secret
\* exists, its stored data holds exactly the ConfigMap's key/value pairs,
\* and its controller OwnerReference names the ConfigMap.
C27_SecretMirrorsConfigMap ==
  SyncedPass /\ ~lastSync.err
    => /\ secret.exists
       /\ secret.data = configMap.data
       /\ secret.owner = configMap.uid

\* C28: a pass on an annotated ConfigMap whose Secret already exists with
\* the desired data and labels issues no Update of the Secret.
C28_NoUpdateWhenEqual ==
  /\ SyncedPass
  /\ lastSync.before.exists
  /\ lastSync.before.data = configMap.data
  /\ lastSync.before.labels = NewSecret(configMap).labels
  => SecretOp("Update") = {}

\* C29: a pass on an existing ConfigMap without the sync annotation returns
\* success and makes no call to any Secret: none is read, created, updated
\* or deleted.
C29_NoAnnotationNoSecretCall ==
  lastSync.ran /\ lastSync.calls[1].res = "ok" /\ ~configMap.annotated
    => /\ ~lastSync.err
       /\ SecretCalls = {}
       /\ secret = lastSync.before

\* Such a pass ran while a Secret synced earlier was there.
C29_Witness ==
  /\ lastSync.ran
  /\ lastSync.calls[1].res = "ok"
  /\ ~configMap.annotated
  /\ lastSync.before.exists

\* C30: a pass that does not find the ConfigMap issues one Delete for the
\* Secret; the pass fails exactly when that Delete fails with an error
\* other than not-found; a Delete that succeeds leaves no Secret, and a
\* pass that finds the Secret gone already succeeds and changes nothing.
C30_DeleteOnNotFound ==
  lastSync.ran /\ lastSync.calls[1].res = "notfound"
    => /\ Len(lastSync.calls) = 2
       /\ lastSync.calls[2].op = "Delete"
       /\ lastSync.calls[2].kind = "secret"
       /\ lastSync.err <=> lastSync.calls[2].res = "error"
       /\ lastSync.calls[2].res = "ok" => ~secret.exists
       /\ ~lastSync.before.exists /\ lastSync.calls[2].res # "error"
            => /\ lastSync.calls[2].res = "notfound"
               /\ ~lastSync.err
               /\ secret = lastSync.before

\* A pass deleted the Secret of a deleted ConfigMap, or found it gone.
C30_Witness ==
  /\ lastSync.ran
  /\ lastSync.calls[1].res = "notfound"
  /\ Len(lastSync.calls) = 2
  /\ lastSync.calls[2].res = "notfound"
  /\ configMap.uid > 0
  /\ ~lastSync.err

\* C33: a pass of the finalizer-aware Reconcile that read the parent with a
\* DeletionTimestamp, with or without the finalizer, issues no Create and
\* no Update of the Deployment and no status write.
C33_NoConvergenceWhileDeleting ==
  CdFound /\ variant = "internal" /\ CdRead.deleting
    => /\ CallsOf("Create", "deploy") = {}
       /\ CallsOf("Update", "deploy") = {}
       /\ CallsOf("UpdateStatus", "cd") = {}

\* Such a pass read a Deployment that an active parent would have had
\* updated and its status published.
C33_Witness ==
  /\ InternalPass(TRUE, TRUE)
  /\ DepReadRes = "ok"
  /\ DepRead.replicas # CdRead.replicas
  /\ DepRead.avail # CdRead.avail

\* C34: a teardown pass issues Delete for the Deployment at most once and
\* only after reading it without a DeletionTimestamp, and a pass that
\* issues Delete does not remove the finalizer, whatever the Delete
\* reports, not-found included.
C34_DeleteOnlyLiveNeverWithRemoval ==
  InternalPass(TRUE, TRUE) /\ CallsOf("Delete", "deploy") # {}
    => /\ Cardinality(CallsOf("Delete", "deploy")) = 1
       /\ DepReadRes = "ok"
       /\ ~DepRead.deleting
       /\ CallsOf("Update", "cd") = {}

\* A teardown pass issued Delete, got not-found from it, and returned
\* success with the finalizer left on the parent.
C34_Witness ==
  /\ InternalPass(TRUE, TRUE)
  /\ CallsOf("Delete", "deploy") # {}
  /\ \E i \in CallsOf("Delete", "deploy") : last.calls[i].res = "notfound"
  /\ ~last.err

\* C35: a teardown pass whose read of the Deployment fails with an error
\* other than not-found, or whose Delete does, returns an error and issues
\* no Update of the parent; the stored parent keeps the finalizer.
C35_TeardownErrorsReturned ==
  /\ InternalPass(TRUE, TRUE)
  /\ \/ DepReadRes = "error"
     \/ \E i \in CallsOf("Delete", "deploy") :
          last.calls[i].res \notin {"ok", "notfound"}
  => /\ last.err
     /\ ParentWrites = {}
     /\ last.fresh => cd.exists /\ Fin \in cd.finalizers

\* The Delete of a teardown pass failed.
C35_Witness ==
  /\ InternalPass(TRUE, TRUE)
  /\ \E i \in CallsOf("Delete", "deploy") : last.calls[i].res = "error"
  /\ last.fresh
  /\ Fin \in cd.finalizers

\* C36: every Deployment on which a pass issues Update or Delete carries,
\* as the pass read it, a controller OwnerReference pointing at the parent:
\* a same-named Deployment the parent does not own is neither modified nor
\* deleted.
C36_WritesOnlyOwnedDeployment ==
  CdFound =>
    \A i \in CallsOf("Update", "deploy") \cup CallsOf("Delete", "deploy") :
      ControlledByParent(DepRead)

\* C37: on a parent read without a DeletionTimestamp and with the
\* finalizer on it, whatever the Deployment and whichever call fails, the
\* finalizer-aware Reconcile makes the calls, returns the result and leaves
\* the API server as the finalizer-less Reconcile does on the same input.
C37_SameAsPlainOnActiveParent ==
  /\ cacheCD.exists
  /\ ~cacheCD.deleting
  /\ ContainsFinalizer(cacheCD, customDeploymentFinalizer)
  => \A fault \in 0..MaxCalls :
       LET S == [cd |-> cd, dep |-> dep] IN
       Reconcile(cacheCD, cacheDep, S, fault)
         = ReconcilePlain(cacheCD, cacheDep, S, fault)

\* The finalizer-aware Reconcile ran on such a parent and wrote to the
\* Deployment, and would again.
C37_Witness ==
  /\ InternalPass(FALSE, TRUE)
  /\ DeployWrites # {}
  /\ cacheCD = CdRead
  /\ ContainsFinalizer(cacheCD, customDeploymentFinalizer)

\* C38: a Secret of the synced name that the controller did not create (it
\* carries no OwnerReference) is neither overwritten nor deleted by a pass.
C38_ForeignSecretUntouched ==
  lastSync.ran /\ lastSync.before.exists /\ lastSync.before.owner = 0
    => "ok" \notin SecretOp("Update") \cup SecretOp("Delete")

\* The parent's deletion was requested and the finalizer holds it.
TeardownPending ==
  cd.exists /\ cd.deleting /\ Fin \in cd.finalizers

\* C32: once deletion of a parent that carries the finalizer is requested,
\* the finalizer is removed in the end, given that calls succeed in the
\* end, that the Deployment's deletion finishes, and that passes are
\* triggered by events of the parent, events of Deployments it controls
\* and retries only.
C32_TeardownCompletes ==
  TeardownPending ~> ~(cd.exists /\ Fin \in cd.finalizers)

\* The parent is active and carries the finalizer.
ActiveWithFinalizer ==
  cd.exists /\ ~cd.deleting /\ Fin \in cd.finalizers

\* The Deployment exists with the parent's replicas and the parent
\* publishes the Deployment's available replicas.
Converged ==
  dep.exists /\ dep.replicas = cd.replicas /\ cd.avail = dep.avail

\* C31: once the parent's spec has stopped changing and calls succeed, an
\* active parent that carries the finalizer ends up, and stays, with its
\* Deployment at spec.replicas and its status at the Deployment's available
\* replicas, and the passes that still run write nothing.
C31_Converges ==
  <>[](ActiveWithFinalizer =>
         Converged /\ (last.ran => Writes(last.calls) = <<>>))

\* The changes are over, the parent has converged on the Deployment it
\* controls, and the latest pass wrote nothing.
C31_Witness ==
  /\ triggered
  /\ budget = 0
  /\ ActiveWithFinalizer
  /\ Converged
  /\ ControlledByParent(dep)
  /\ cd.replicas > 0
  /\ last.ran
  /\ Writes(last.calls) = <<>>

====
